---- MODULE Spec2Model ----
(***************************************************************************)
(* A model of the TNEF (winmail.dat) decoder: the byte cursor TnefDecoder, *)
(* the text decoders, the MAPI property block decoders and the top-level   *)
(* attribute loop of parseTnef with its attachment accumulator.            *)
(*                                                                         *)
(* Bytes are integers 0..255.  A JavaScript string is the sequence of its  *)
(* UTF-16 code units.  A value that is not a string (a function object     *)
(* found on Object.prototype) is a one-element sequence holding a negative *)
(* number, so that it compares unequal to every string.                    *)
(***************************************************************************)
EXTENDS Integers, Sequences, FiniteSets, TLC

(***************************************************************************)
(* Program constants (types.ts).                                           *)
(***************************************************************************)
LVL_MESSAGE == 1
LVL_ATTACHMENT == 2
TNEF_SIGNATURE == 574529400

ATTR_FROM == 32768
ATTR_SUBJECT == 32772
ATTR_DATE_SENT == 32773
ATTR_BODY == 32780
ATTR_MAPI_PROPS == 36867
ATTR_OEM_CODEPAGE == 36871

ATTACH_REND_DATA == 36866
ATTACH_DATA == 32783
ATTACH_TITLE == 32784
ATTACH_MAPI_PROPS == 36869

PT_SHORT == 2
PT_LONG == 3
PT_BOOLEAN == 11
PT_STRING8 == 30
PT_UNICODE == 31
PT_SYSTIME == 64
PT_BINARY == 258
PT_MV_STRING8 == 4126
PT_MV_UNICODE == 4127
PT_MV_BINARY == 4354

PROP_SUBJECT == 55
PROP_SENDER_NAME == 3098
PROP_SENDER_EMAIL == 3103
PROP_SENT_REPR_NAME == 66
PROP_SENT_REPR_EMAIL == 101
PROP_BODY == 4096
PROP_BODY_HTML == 4115
PROP_DISPLAY_NAME == 12289
PROP_ATTACH_DATA_BIN == 14081
PROP_ATTACH_FILENAME == 14084
PROP_ATTACH_LONG_FILENAME == 14087
PROP_ATTACH_EXTENSION == 14083
PROP_ATTACH_MIME_TAG == 14094

(* The first id of a named property (parseMapiProps: propId >= 0x8000). *)
NAMED_PROP_MIN == 32768

(***************************************************************************)
(* Little-endian integers and 32-bit arithmetic.                           *)
(***************************************************************************)
(* The model checker's integers are 32 bits wide.  An unsigned 32-bit     *)
(* value v read from the input is therefore held as v when v < 2^31 and as *)
(* v - 2^32 (a negative number) when v >= 2^31; the operators that use     *)
(* such a value compute what the code computes on the value itself.        *)
Pow2_16 == 65536
MaxInt32 == 2147483647
MinInt32 == (-MaxInt32) - 1

(* v >= 2^31 *)
IsLarge(v) == v < 0

(* a < v and v > a for an unsigned 32-bit v and a number a below 2^31 *)
Below(a, v) == IsLarge(v) \/ a < v
Above(v, a) == IsLarge(v) \/ v > a

(* ToInt32(n + 3): the sum under pad4's &, wrapped to 32 bits. *)
Plus3Int32(n) ==
    IF n > MaxInt32 - 3 THEN MinInt32 + (n - (MaxInt32 - 2)) ELSE n + 3

(* pad4: (n + 3) & ~3, the operands of & taken as 32-bit signed integers;  *)
(* s & ~3 clears the two low bits of s.                                    *)
pad4(n) ==
    LET s == Plus3Int32(n) IN s - (s % 4)

(* DataView.getUint16(pos, true) and getUint32(pos, true); pos is 0-based. *)
GetUint16(data, pos) == data[pos + 1] + 256 * data[pos + 2]
GetUint32(data, pos) ==
    data[pos + 1] + 256 * data[pos + 2] + 65536 * data[pos + 3]
        + 16777216 * (IF data[pos + 4] >= 128 THEN data[pos + 4] - 256
                      ELSE data[pos + 4])

(***************************************************************************)
(* TnefDecoder: a cursor is the pair (data, pos).  A read returns          *)
(* [ok, val, pos, err]: ok = FALSE is a thrown error and pos is then the   *)
(* unchanged position.                                                     *)
(***************************************************************************)
ErrEnd == "Unexpected end of data"
ErrRange == "RangeError: Offset is outside the bounds of the DataView"
ErrSignature == "Not a valid TNEF (winmail.dat) file"

(* JavaScript values that are not strings or byte arrays: the value of    *)
(* data[pos] for a pos outside the array, an unset field, and null.        *)
Undefined == -1
UndefinedValue == <<-1>>
Null == <<-2>>

(* The truth value of a string or undefined: if (parsed.subject) ... *)
Truthy(s) == s # << >> /\ s # UndefinedValue /\ s # Null

Thrown(msg, pos) == [ok |-> FALSE, val |-> 0, pos |-> pos, err |-> msg]
Return(val, pos) == [ok |-> TRUE, val |-> val, pos |-> pos, err |-> ""]

remaining(data, pos) == Len(data) - pos

readUint8(data, pos) ==
    IF pos >= Len(data) THEN Thrown(ErrEnd, pos)
    ELSE IF pos < 0 THEN Return(Undefined, pos + 1)
    ELSE Return(data[pos + 1], pos + 1)

(* readUint16LE with this.pos += 2 before the test of the length. *)
readUint16LEAdvanceFirst(data, pos) ==
    IF pos + 2 > Len(data) THEN Thrown(ErrEnd, pos + 2)
    ELSE IF pos < 0 THEN Thrown(ErrRange, pos)
    ELSE Return(GetUint16(data, pos), pos + 2)

readUint16LE(data, pos) ==
    IF pos + 2 > Len(data) THEN Thrown(ErrEnd, pos)
    ELSE IF pos < 0 THEN Thrown(ErrRange, pos)
    ELSE Return(GetUint16(data, pos), pos + 2)

readUint32LE(data, pos) ==
    IF pos + 4 > Len(data) THEN Thrown(ErrEnd, pos)
    ELSE IF pos < 0 THEN Thrown(ErrRange, pos)
    ELSE Return(GetUint32(data, pos), pos + 4)

(* Uint8Array.prototype.slice(start, end): a negative index counts from    *)
(* the end of the array, and both indices are clamped to 0..length.        *)
SliceIndex(i, len) ==
    IF i < 0 THEN (IF len + i < 0 THEN 0 ELSE len + i)
    ELSE IF i > len THEN len ELSE i

Slice(data, start, end) ==
    SubSeq(data, SliceIndex(start, Len(data)) + 1, SliceIndex(end, Len(data)))

(* pos + length > limit, for an unsigned 32-bit length, without forming a  *)
(* sum that does not fit 32 bits. *)
SumExceeds(pos, length, limit) ==
    IF IsLarge(length)
    THEN (IF pos >= 0 THEN TRUE
          ELSE (pos - MinInt32) > limit - (length - MinInt32))
    ELSE (IF pos >= 0 THEN length > limit - pos ELSE pos + length > limit)

(* pos + length, when it is at most the length of the data. *)
SumWithin(pos, length) ==
    IF IsLarge(length) THEN (pos - MinInt32) + (length - MinInt32)
    ELSE pos + length

readBytes(data, pos, length) ==
    IF SumExceeds(pos, length, Len(data)) THEN Thrown(ErrEnd, pos)
    ELSE Return(Slice(data, pos, SumWithin(pos, length)), SumWithin(pos, length))

(* this.pos += length without the clamp to data.length. *)
skipUnclamped(data, pos, length) == pos + length

(* skip returns the new position; length is a signed number here (a        *)
(* literal, a result of pad4, or pad4(len) - len).                         *)
skip(data, pos, length) ==
    IF pos >= 0 /\ length >= 0
    THEN (IF length > Len(data) - pos THEN Len(data) ELSE pos + length)
    ELSE (IF pos + length > Len(data) THEN Len(data) ELSE pos + length)

(* remaining > n and remaining >= n, for a cursor that a skip by a negative *)
(* pad4 may have moved far below 0. *)
RemainingOver(data, pos, n) == pos < Len(data) - n
RemainingAtLeast(data, pos, n) == pos <= Len(data) - n

(***************************************************************************)
(* Text decoding.                                                          *)
(***************************************************************************)
ReplacementChar == 65533
ByteOrderMark == 65279

(* TextDecoder('windows-1252'): the code point of each byte 0x80..0x9F. *)
Windows1252High ==
    << 8364, 129, 8218, 402, 8222, 8230, 8224, 8225,
       710, 8240, 352, 8249, 338, 141, 381, 143,
       144, 8216, 8217, 8220, 8221, 8226, 8211, 8212,
       732, 8482, 353, 8250, 339, 157, 382, 376 >>

DecodeWindows1252(bytes) ==
    [i \in 1..Len(bytes) |->
        IF bytes[i] >= 128 /\ bytes[i] <= 159
        THEN Windows1252High[bytes[i] - 127]
        ELSE bytes[i]]

(* bytes.indexOf(0), or bytes.length when there is no NUL byte. *)
IndexOfNul(bytes) ==
    IF \E i \in 1..Len(bytes) : bytes[i] = 0
    THEN (CHOOSE i \in 1..Len(bytes) :
              bytes[i] = 0 /\ \A j \in 1..(i - 1) : bytes[j] # 0) - 1
    ELSE Len(bytes)

(* decodeAnsiString(bytes): the method has one parameter; the encoding     *)
(* callers pass as a second argument is not read.                          *)
decodeAnsiString(bytes, encoding) ==
    DecodeWindows1252(SubSeq(bytes, 1, IndexOfNul(bytes)))

IsLeadSurrogate(u) == u >= 55296 /\ u <= 56319
IsTrailSurrogate(u) == u >= 56320 /\ u <= 57343

RECURSIVE ScrubSurrogates(_, _)
ScrubSurrogates(units, i) ==
    IF i > Len(units) THEN << >>
    ELSE IF IsLeadSurrogate(units[i])
         THEN IF i < Len(units) /\ IsTrailSurrogate(units[i + 1])
              THEN <<units[i], units[i + 1]>> \o ScrubSurrogates(units, i + 2)
              ELSE <<ReplacementChar>> \o ScrubSurrogates(units, i + 1)
    ELSE IF IsTrailSurrogate(units[i])
         THEN <<ReplacementChar>> \o ScrubSurrogates(units, i + 1)
    ELSE <<units[i]>> \o ScrubSurrogates(units, i + 1)

StripBom(units) ==
    IF Len(units) > 0 /\ units[1] = ByteOrderMark THEN Tail(units) ELSE units

(* TextDecoder('utf-16le').decode: pairs of bytes are code units, unpaired  *)
(* surrogates and a trailing odd byte become U+FFFD, a leading BOM is       *)
(* dropped.                                                                *)
DecodeUtf16LE(bytes) ==
    LET n == Len(bytes) \div 2
        units == [i \in 1..n |-> bytes[2 * i - 1] + 256 * bytes[2 * i]]
        odd == Len(bytes) % 2 = 1
        pendingLead == n > 0 /\ IsLeadSurrogate(units[n])
    IN  StripBom(ScrubSurrogates(units, 1)
                 \o (IF odd /\ ~pendingLead THEN <<ReplacementChar>> ELSE << >>))

decodeUnicodeString(bytes) ==
    LET len == Len(bytes)
        cut == IF len >= 2 /\ bytes[len] = 0 /\ bytes[len - 1] = 0
               THEN len - 2 ELSE len
    IN  DecodeUtf16LE(SubSeq(bytes, 1, cut))

(* The UTF-16 code units of a code point. *)
CodeUnits(cp) ==
    IF cp >= Pow2_16
    THEN <<55296 + ((cp - Pow2_16) \div 1024), 56320 + ((cp - Pow2_16) % 1024)>>
    ELSE <<cp>>

(* TextDecoder('utf-8').decode, the WHATWG decoder: needed continuation    *)
(* bytes, the code point so far and the bounds of the next byte.           *)
RECURSIVE Utf8Run(_, _, _, _, _, _)
Utf8Run(b, i, needed, cp, lo, hi) ==
    IF i > Len(b) THEN (IF needed # 0 THEN <<ReplacementChar>> ELSE << >>)
    ELSE
      LET x == b[i] IN
      IF needed = 0 THEN
        IF x <= 127 THEN <<x>> \o Utf8Run(b, i + 1, 0, 0, 128, 191)
        ELSE IF x >= 194 /\ x <= 223
             THEN Utf8Run(b, i + 1, 1, x - 192, 128, 191)
        ELSE IF x >= 224 /\ x <= 239
             THEN Utf8Run(b, i + 1, 2, x - 224,
                          IF x = 224 THEN 160 ELSE 128,
                          IF x = 237 THEN 159 ELSE 191)
        ELSE IF x >= 240 /\ x <= 244
             THEN Utf8Run(b, i + 1, 3, x - 240,
                          IF x = 240 THEN 144 ELSE 128,
                          IF x = 244 THEN 143 ELSE 191)
        ELSE <<ReplacementChar>> \o Utf8Run(b, i + 1, 0, 0, 128, 191)
      ELSE IF x < lo \/ x > hi
           THEN <<ReplacementChar>> \o Utf8Run(b, i, 0, 0, 128, 191)
      ELSE IF needed = 1
           THEN CodeUnits(cp * 64 + (x - 128)) \o Utf8Run(b, i + 1, 0, 0, 128, 191)
      ELSE Utf8Run(b, i + 1, needed - 1, cp * 64 + (x - 128), 128, 191)

DecodeUtf8(bytes) == StripBom(Utf8Run(bytes, 1, 0, 0, 128, 191))

(***************************************************************************)
(* codepageToEncoding.                                                     *)
(***************************************************************************)
(* map[cp] || 'windows-1252': another default. *)
codepageToEncodingOrLatin(cp) ==
    IF cp \in {932, 936, 949, 950, 65001} THEN
        (IF cp = 932 THEN "shift_jis" ELSE IF cp = 936 THEN "gbk"
         ELSE IF cp = 949 THEN "euc-kr" ELSE IF cp = 950 THEN "big5" ELSE "utf-8")
    ELSE "windows-1252"

CodepageMap ==
    (932 :> "shift_jis") @@ (936 :> "gbk") @@ (949 :> "euc-kr")
    @@ (950 :> "big5")
    @@ (1250 :> "windows-1250") @@ (1251 :> "windows-1251")
    @@ (1252 :> "windows-1252") @@ (1253 :> "windows-1253")
    @@ (1254 :> "windows-1254") @@ (1255 :> "windows-1255")
    @@ (1256 :> "windows-1256") @@ (1257 :> "windows-1257")
    @@ (1258 :> "windows-1258") @@ (65001 :> "utf-8")

codepageToEncoding(cp) ==
    IF cp \in DOMAIN CodepageMap THEN CodepageMap[cp] ELSE "shift_jis"

(***************************************************************************)
(* readPropValue: the value of one MAPI property and the cursor after it.  *)
(* A value is [t, v] with t one of "number", "string", "bytes", "null".    *)
(* Every error thrown inside is caught there and gives null.               *)
(***************************************************************************)
NullProp(pos) == [t |-> "null", v |-> Null, pos |-> pos]
PropValue(t, v, pos) == [t |-> t, v |-> v, pos |-> pos]

(* for (j = 0; j < count; j++) { len = readUint32LE(); skip(pad4(len)) }:  *)
(* [ok, pos] after the loop, ok = FALSE when a read threw.                 *)
RECURSIVE SkipBlocks(_, _, _, _)
SkipBlocks(data, pos, j, count) ==
    IF ~Below(j, count) THEN [ok |-> TRUE, pos |-> pos]
    ELSE LET len == readUint32LE(data, pos) IN
         IF ~len.ok THEN [ok |-> FALSE, pos |-> pos]
         ELSE SkipBlocks(data, skip(data, len.pos, pad4(len.val)), j + 1, count)

(* The same without line 378 / 392 / 406: the padding after the bytes is   *)
(* not skipped.                                                            *)
ReadCountedBytesUnpadded(data, pos) ==
    LET count == readUint32LE(data, pos) IN
    IF ~count.ok THEN [ok |-> FALSE, bytes |-> << >>, pos |-> pos]
    ELSE IF count.val # 1
         THEN [ok |-> FALSE, bytes |-> << >>,
               pos |-> SkipBlocks(data, count.pos, 0, count.val).pos]
    ELSE LET len == readUint32LE(data, count.pos) IN
         IF ~len.ok THEN [ok |-> FALSE, bytes |-> << >>, pos |-> count.pos]
         ELSE LET bytes == readBytes(data, len.pos, len.val) IN
              IF ~bytes.ok THEN [ok |-> FALSE, bytes |-> << >>, pos |-> len.pos]
              ELSE [ok |-> TRUE, bytes |-> bytes.val, pos |-> bytes.pos]

(* The same with the value count not tested: the first value is read.     *)
ReadCountedBytesFirstValue(data, pos) ==
    LET count == readUint32LE(data, pos) IN
    IF ~count.ok THEN [ok |-> FALSE, bytes |-> << >>, pos |-> pos]
    ELSE LET len == readUint32LE(data, count.pos) IN
         IF ~len.ok THEN [ok |-> FALSE, bytes |-> << >>, pos |-> count.pos]
         ELSE LET bytes == readBytes(data, len.pos, len.val) IN
              IF ~bytes.ok THEN [ok |-> FALSE, bytes |-> << >>, pos |-> len.pos]
              ELSE [ok |-> TRUE, bytes |-> bytes.val,
                    pos |-> skip(data, bytes.pos, pad4(len.val) - len.val)]

(* The STRING8 / UNICODE / BINARY cases up to the decoding of the bytes:   *)
(* [ok, bytes, pos]; ok = FALSE stands for "return null".                  *)
ReadCountedBytes(data, pos) ==
    LET count == readUint32LE(data, pos) IN
    IF ~count.ok THEN [ok |-> FALSE, bytes |-> << >>, pos |-> pos]
    ELSE IF count.val # 1
         THEN [ok |-> FALSE, bytes |-> << >>,
               pos |-> SkipBlocks(data, count.pos, 0, count.val).pos]
    ELSE LET len == readUint32LE(data, count.pos) IN
         IF ~len.ok THEN [ok |-> FALSE, bytes |-> << >>, pos |-> count.pos]
         ELSE LET bytes == readBytes(data, len.pos, len.val) IN
              IF ~bytes.ok THEN [ok |-> FALSE, bytes |-> << >>, pos |-> len.pos]
              ELSE [ok |-> TRUE, bytes |-> bytes.val,
                    pos |-> skip(data, bytes.pos, pad4(len.val) - len.val)]

readPropValue(data, pos, propType, ansiEncoding) ==
    IF propType = PT_SHORT THEN
        LET val == readUint16LE(data, pos) IN
        IF ~val.ok THEN NullProp(pos)
        ELSE PropValue("number", val.val, skip(data, val.pos, 2))
    ELSE IF propType \in {PT_LONG, PT_BOOLEAN} THEN
        LET val == readUint32LE(data, pos) IN
        IF ~val.ok THEN NullProp(pos)
        ELSE PropValue("number", val.val, val.pos)
    ELSE IF propType = PT_SYSTIME THEN
        PropValue("number", 0, skip(data, pos, 8))
    ELSE IF propType = PT_STRING8 THEN
        LET r == ReadCountedBytes(data, pos) IN
        IF ~r.ok THEN NullProp(r.pos)
        ELSE PropValue("string", decodeAnsiString(r.bytes, ansiEncoding), r.pos)
    ELSE IF propType = PT_UNICODE THEN
        LET r == ReadCountedBytes(data, pos) IN
        IF ~r.ok THEN NullProp(r.pos)
        ELSE PropValue("string", decodeUnicodeString(r.bytes), r.pos)
    ELSE IF propType = PT_BINARY THEN
        LET r == ReadCountedBytes(data, pos) IN
        IF ~r.ok THEN NullProp(r.pos)
        ELSE PropValue("bytes", r.bytes, r.pos)
    ELSE IF propType \in {PT_MV_STRING8, PT_MV_UNICODE, PT_MV_BINARY} THEN
        LET count == readUint32LE(data, pos) IN
        IF ~count.ok THEN NullProp(pos)
        ELSE NullProp(SkipBlocks(data, count.pos, 0, count.val).pos)
    ELSE
        NullProp(IF RemainingAtLeast(data, pos, 4) THEN skip(data, pos, 4) ELSE pos)

(* skipNamedPropHeader without the skip of the 4-byte id of kind 0. *)
skipNamedPropHeaderNoId(data, pos) ==
    LET kind == readUint32LE(data, skip(data, pos, 16)) IN
    IF ~kind.ok THEN [ok |-> FALSE, pos |-> kind.pos]
    ELSE IF kind.val = 0 THEN [ok |-> TRUE, pos |-> kind.pos]
    ELSE LET nameLen == readUint32LE(data, kind.pos) IN
         IF ~nameLen.ok THEN [ok |-> FALSE, pos |-> kind.pos]
         ELSE [ok |-> TRUE, pos |-> skip(data, nameLen.pos, pad4(nameLen.val))]

(* skipNamedPropHeader: [ok, pos]; ok = FALSE when a read threw. *)
skipNamedPropHeader(data, pos) ==
    LET kind == readUint32LE(data, skip(data, pos, 16)) IN
    IF ~kind.ok THEN [ok |-> FALSE, pos |-> kind.pos]
    ELSE IF kind.val = 0 THEN [ok |-> TRUE, pos |-> skip(data, kind.pos, 4)]
    ELSE LET nameLen == readUint32LE(data, kind.pos) IN
         IF ~nameLen.ok THEN [ok |-> FALSE, pos |-> kind.pos]
         ELSE [ok |-> TRUE, pos |-> skip(data, nameLen.pos, pad4(nameLen.val))]

(* The head of one iteration of the property loop: type, id, the named     *)
(* property header and the value.  [ok, propId, value]; ok = FALSE when an *)
(* error escaped to the catch of the block decoder.                        *)
ReadProperty(data, pos, ansiEncoding) ==
    LET propType == readUint16LE(data, pos)
        propId == readUint16LE(data, propType.pos)
        named == IF propId.ok /\ propId.val >= NAMED_PROP_MIN
                 THEN skipNamedPropHeader(data, propId.pos)
                 ELSE [ok |-> TRUE, pos |-> propId.pos]
    IN  IF ~propType.ok \/ ~propId.ok \/ ~named.ok
        THEN [ok |-> FALSE, propId |-> 0, value |-> NullProp(pos)]
        ELSE [ok |-> TRUE, propId |-> propId.val,
              value |-> readPropValue(data, named.pos, propType.val, ansiEncoding)]

(***************************************************************************)
(* parseMapiProps: the message-level block decoder.                        *)
(***************************************************************************)
EmptyMapiResult ==
    [subject |-> UndefinedValue, senderName |-> UndefinedValue,
     senderEmail |-> UndefinedValue, body |-> UndefinedValue,
     bodyHtml |-> UndefinedValue]

(* The switch without the tests of !result.senderName and                 *)
(* !result.senderEmail: a later sender property overwrites.                *)
RouteMapiPropLastWins(result, propId, value) ==
    IF propId = PROP_SUBJECT /\ value.t = "string"
        THEN [result EXCEPT !.subject = value.v]
    ELSE IF propId \in {PROP_SENDER_NAME, PROP_SENT_REPR_NAME}
            /\ value.t = "string"
        THEN [result EXCEPT !.senderName = value.v]
    ELSE IF propId \in {PROP_SENDER_EMAIL, PROP_SENT_REPR_EMAIL}
            /\ value.t = "string"
        THEN [result EXCEPT !.senderEmail = value.v]
    ELSE IF propId = PROP_BODY /\ value.t = "string"
        THEN [result EXCEPT !.body = value.v]
    ELSE IF propId = PROP_BODY_HTML /\ value.t = "bytes"
        THEN [result EXCEPT !.bodyHtml = DecodeUtf8(value.v)]
    ELSE IF propId = PROP_BODY_HTML /\ value.t = "string"
        THEN [result EXCEPT !.bodyHtml = value.v]
    ELSE result

(* switch (propId) of parseMapiProps. *)
RouteMapiProp(result, propId, value) ==
    IF propId = PROP_SUBJECT /\ value.t = "string"
        THEN [result EXCEPT !.subject = value.v]
    ELSE IF propId \in {PROP_SENDER_NAME, PROP_SENT_REPR_NAME}
            /\ value.t = "string" /\ ~Truthy(result.senderName)
        THEN [result EXCEPT !.senderName = value.v]
    ELSE IF propId \in {PROP_SENDER_EMAIL, PROP_SENT_REPR_EMAIL}
            /\ value.t = "string" /\ ~Truthy(result.senderEmail)
        THEN [result EXCEPT !.senderEmail = value.v]
    ELSE IF propId = PROP_BODY /\ value.t = "string"
        THEN [result EXCEPT !.body = value.v]
    ELSE IF propId = PROP_BODY_HTML /\ value.t = "bytes"
        THEN [result EXCEPT !.bodyHtml = DecodeUtf8(value.v)]
    ELSE IF propId = PROP_BODY_HTML /\ value.t = "string"
        THEN [result EXCEPT !.bodyHtml = value.v]
    ELSE result

(* The property loop with the fields resolved so far dropped when a       *)
(* property fails.                                                         *)
RECURSIVE MapiLoopDiscard(_, _, _, _, _, _)
MapiLoopDiscard(data, pos, i, count, ansiEncoding, result) ==
    IF ~(Below(i, count) /\ RemainingOver(data, pos, 4)) THEN result
    ELSE LET p == ReadProperty(data, pos, ansiEncoding) IN
         IF ~p.ok \/ p.value.t = "null" THEN EmptyMapiResult
         ELSE MapiLoopDiscard(data, p.value.pos, i + 1, count, ansiEncoding,
                              RouteMapiProp(result, p.propId, p.value))

(* The property loop with continue in place of break at line 254: a        *)
(* property without value is passed over.                                  *)
RECURSIVE MapiLoopContinue(_, _, _, _, _, _)
MapiLoopContinue(data, pos, i, count, ansiEncoding, result) ==
    IF ~(Below(i, count) /\ RemainingOver(data, pos, 4)) THEN result
    ELSE LET p == ReadProperty(data, pos, ansiEncoding) IN
         IF ~p.ok THEN result
         ELSE MapiLoopContinue(data, p.value.pos, i + 1, count, ansiEncoding,
                               IF p.value.t = "null" THEN result
                               ELSE RouteMapiProp(result, p.propId, p.value))

RECURSIVE MapiLoop(_, _, _, _, _, _)
MapiLoop(data, pos, i, count, ansiEncoding, result) ==
    IF ~(Below(i, count) /\ RemainingOver(data, pos, 4)) THEN result
    ELSE LET p == ReadProperty(data, pos, ansiEncoding) IN
         IF ~p.ok \/ p.value.t = "null" THEN result
         ELSE MapiLoop(data, p.value.pos, i + 1, count, ansiEncoding,
                       RouteMapiProp(result, p.propId, p.value))

(* parseMapiProps with the loop condition d.remaining > 4 alone: the       *)
(* declared count does not end the loop.                                   *)
parseMapiPropsUncounted(data, ansiEncoding) ==
    LET count == readUint32LE(data, 0) IN
    IF ~count.ok THEN EmptyMapiResult
    ELSE MapiLoop(data, count.pos, 0, -1, ansiEncoding, EmptyMapiResult)

parseMapiProps(data, ansiEncoding) ==
    LET count == readUint32LE(data, 0) IN
    IF ~count.ok THEN EmptyMapiResult
    ELSE MapiLoop(data, count.pos, 0, count.val, ansiEncoding, EmptyMapiResult)

(***************************************************************************)
(* parseAttachMapiProps: the attachment-level block decoder.               *)
(***************************************************************************)
EmptyAttachMapiResult ==
    [filename |-> UndefinedValue, longFilename |-> UndefinedValue,
     displayName |-> UndefinedValue, mimeType |-> UndefinedValue,
     extension |-> UndefinedValue, data |-> UndefinedValue]

(* switch (propId) of parseAttachMapiProps. *)
RouteAttachMapiProp(result, propId, value) ==
    IF propId = PROP_ATTACH_FILENAME /\ value.t = "string"
        THEN [result EXCEPT !.filename = value.v]
    ELSE IF propId = PROP_ATTACH_LONG_FILENAME /\ value.t = "string"
        THEN [result EXCEPT !.longFilename = value.v]
    ELSE IF propId = PROP_DISPLAY_NAME /\ value.t = "string"
        THEN [result EXCEPT !.displayName = value.v]
    ELSE IF propId = PROP_ATTACH_MIME_TAG /\ value.t = "string"
        THEN [result EXCEPT !.mimeType = value.v]
    ELSE IF propId = PROP_ATTACH_EXTENSION /\ value.t = "string"
        THEN [result EXCEPT !.extension = value.v]
    ELSE IF propId = PROP_ATTACH_DATA_BIN /\ value.t = "bytes"
        THEN [result EXCEPT !.data = value.v]
    ELSE result

RECURSIVE AttachMapiLoop(_, _, _, _, _, _)
AttachMapiLoop(data, pos, i, count, ansiEncoding, result) ==
    IF ~(Below(i, count) /\ RemainingOver(data, pos, 4)) THEN result
    ELSE LET p == ReadProperty(data, pos, ansiEncoding) IN
         IF ~p.ok \/ p.value.t = "null" THEN result
         ELSE AttachMapiLoop(data, p.value.pos, i + 1, count, ansiEncoding,
                             RouteAttachMapiProp(result, p.propId, p.value))

parseAttachMapiProps(data, ansiEncoding) ==
    LET count == readUint32LE(data, 0) IN
    IF ~count.ok THEN EmptyAttachMapiResult
    ELSE AttachMapiLoop(data, count.pos, 0, count.val, ansiEncoding,
                        EmptyAttachMapiResult)

(***************************************************************************)
(* guessMimeType.                                                          *)
(***************************************************************************)
(* guessMimeType's table: extension :> MIME type, both as UTF-16 code units *)
MimeMap ==
    (<<112, 100, 102>> :> <<97, 112, 112, 108, 105, 99, 97, 116, 105, 111, 110, 47, 112, 100, 102>>)  \* pdf: application/pdf
 @@ (<<100, 111, 99>> :> <<97, 112, 112, 108, 105, 99, 97, 116, 105, 111, 110, 47, 109, 115, 119, 111, 114, 100>>)  \* doc: application/msword
 @@ (<<100, 111, 99, 120>> :> <<97, 112, 112, 108, 105, 99, 97, 116, 105, 111, 110, 47, 118, 110, 100, 46, 111, 112, 101, 110, 120, 109, 108, 102, 111, 114, 109, 97, 116, 115, 45, 111, 102, 102, 105, 99, 101, 100, 111, 99, 117, 109, 101, 110, 116, 46, 119, 111, 114, 100, 112, 114, 111, 99, 101, 115, 115, 105, 110, 103, 109, 108, 46, 100, 111, 99, 117, 109, 101, 110, 116>>)  \* docx: application/vnd.openxmlformats-officedocument.wordprocessingml.document
 @@ (<<120, 108, 115>> :> <<97, 112, 112, 108, 105, 99, 97, 116, 105, 111, 110, 47, 118, 110, 100, 46, 109, 115, 45, 101, 120, 99, 101, 108>>)  \* xls: application/vnd.ms-excel
 @@ (<<120, 108, 115, 120>> :> <<97, 112, 112, 108, 105, 99, 97, 116, 105, 111, 110, 47, 118, 110, 100, 46, 111, 112, 101, 110, 120, 109, 108, 102, 111, 114, 109, 97, 116, 115, 45, 111, 102, 102, 105, 99, 101, 100, 111, 99, 117, 109, 101, 110, 116, 46, 115, 112, 114, 101, 97, 100, 115, 104, 101, 101, 116, 109, 108, 46, 115, 104, 101, 101, 116>>)  \* xlsx: application/vnd.openxmlformats-officedocument.spreadsheetml.sheet
 @@ (<<112, 112, 116>> :> <<97, 112, 112, 108, 105, 99, 97, 116, 105, 111, 110, 47, 118, 110, 100, 46, 109, 115, 45, 112, 111, 119, 101, 114, 112, 111, 105, 110, 116>>)  \* ppt: application/vnd.ms-powerpoint
 @@ (<<112, 112, 116, 120>> :> <<97, 112, 112, 108, 105, 99, 97, 116, 105, 111, 110, 47, 118, 110, 100, 46, 111, 112, 101, 110, 120, 109, 108, 102, 111, 114, 109, 97, 116, 115, 45, 111, 102, 102, 105, 99, 101, 100, 111, 99, 117, 109, 101, 110, 116, 46, 112, 114, 101, 115, 101, 110, 116, 97, 116, 105, 111, 110, 109, 108, 46, 112, 114, 101, 115, 101, 110, 116, 97, 116, 105, 111, 110>>)  \* pptx: application/vnd.openxmlformats-officedocument.presentationml.presentation
 @@ (<<106, 112, 103>> :> <<105, 109, 97, 103, 101, 47, 106, 112, 101, 103>>)  \* jpg: image/jpeg
 @@ (<<106, 112, 101, 103>> :> <<105, 109, 97, 103, 101, 47, 106, 112, 101, 103>>)  \* jpeg: image/jpeg
 @@ (<<112, 110, 103>> :> <<105, 109, 97, 103, 101, 47, 112, 110, 103>>)  \* png: image/png
 @@ (<<103, 105, 102>> :> <<105, 109, 97, 103, 101, 47, 103, 105, 102>>)  \* gif: image/gif
 @@ (<<98, 109, 112>> :> <<105, 109, 97, 103, 101, 47, 98, 109, 112>>)  \* bmp: image/bmp
 @@ (<<115, 118, 103>> :> <<105, 109, 97, 103, 101, 47, 115, 118, 103, 43, 120, 109, 108>>)  \* svg: image/svg+xml
 @@ (<<116, 120, 116>> :> <<116, 101, 120, 116, 47, 112, 108, 97, 105, 110>>)  \* txt: text/plain
 @@ (<<104, 116, 109, 108>> :> <<116, 101, 120, 116, 47, 104, 116, 109, 108>>)  \* html: text/html
 @@ (<<104, 116, 109>> :> <<116, 101, 120, 116, 47, 104, 116, 109, 108>>)  \* htm: text/html
 @@ (<<99, 115, 118>> :> <<116, 101, 120, 116, 47, 99, 115, 118>>)  \* csv: text/csv
 @@ (<<120, 109, 108>> :> <<116, 101, 120, 116, 47, 120, 109, 108>>)  \* xml: text/xml
 @@ (<<122, 105, 112>> :> <<97, 112, 112, 108, 105, 99, 97, 116, 105, 111, 110, 47, 122, 105, 112>>)  \* zip: application/zip
 @@ (<<114, 97, 114>> :> <<97, 112, 112, 108, 105, 99, 97, 116, 105, 111, 110, 47, 120, 45, 114, 97, 114, 45, 99, 111, 109, 112, 114, 101, 115, 115, 101, 100>>)  \* rar: application/x-rar-compressed
 @@ (<<55, 122>> :> <<97, 112, 112, 108, 105, 99, 97, 116, 105, 111, 110, 47, 120, 45, 55, 122, 45, 99, 111, 109, 112, 114, 101, 115, 115, 101, 100>>)  \* 7z: application/x-7z-compressed
 @@ (<<109, 112, 51>> :> <<97, 117, 100, 105, 111, 47, 109, 112, 101, 103>>)  \* mp3: audio/mpeg
 @@ (<<109, 112, 52>> :> <<118, 105, 100, 101, 111, 47, 109, 112, 52>>)  \* mp4: video/mp4
 @@ (<<97, 118, 105>> :> <<118, 105, 100, 101, 111, 47, 120, 45, 109, 115, 118, 105, 100, 101, 111>>)  \* avi: video/x-msvideo
 @@ (<<109, 111, 118>> :> <<118, 105, 100, 101, 111, 47, 113, 117, 105, 99, 107, 116, 105, 109, 101>>)  \* mov: video/quicktime
 @@ (<<101, 109, 108>> :> <<109, 101, 115, 115, 97, 103, 101, 47, 114, 102, 99, 56, 50, 50>>)  \* eml: message/rfc822
 @@ (<<109, 115, 103>> :> <<97, 112, 112, 108, 105, 99, 97, 116, 105, 111, 110, 47, 118, 110, 100, 46, 109, 115, 45, 111, 117, 116, 108, 111, 111, 107>>)  \* msg: application/vnd.ms-outlook
 @@ (<<105, 99, 115>> :> <<116, 101, 120, 116, 47, 99, 97, 108, 101, 110, 100, 97, 114>>)  \* ics: text/calendar
 @@ (<<118, 99, 102>> :> <<116, 101, 120, 116, 47, 118, 99, 97, 114, 100>>)  \* vcf: text/vcard

OctetStream ==
    <<97, 112, 112, 108, 105, 99, 97, 116, 105, 111, 110, 47, 111, 99, 116,
      101, 116, 45, 115, 116, 114, 101, 97, 109>>  \* 'application/octet-stream'
FallbackName == <<97, 116, 116, 97, 99, 104, 109, 101, 110, 116>>  \* 'attachment'

(* map is an object literal, so map[e] also finds the properties inherited  *)
(* from Object.prototype.  Of their names only these two are all lower     *)
(* case, which e always is; both values are objects, not strings.          *)
StrConstructor ==
    <<99, 111, 110, 115, 116, 114, 117, 99, 116, 111, 114>>  \* 'constructor'
StrProto == <<95, 95, 112, 114, 111, 116, 111, 95, 95>>  \* '__proto__'
ObjectFunction == <<-3>>
ObjectPrototype == <<-4>>

Dot == 46

(* name.split('.').pop(): the part after the last dot, or all of it. *)
LastSegment(name) ==
    LET dots == {i \in 1..Len(name) : name[i] = Dot} IN
    IF dots = {} THEN name
    ELSE LET last == CHOOSE i \in dots : \A j \in dots : j <= i
         IN  SubSeq(name, last + 1, Len(name))

(* toLowerCase on the letters A..Z.  The letters outside ASCII that it     *)
(* also changes never give a key of the table.                             *)
ToLowerCase(s) ==
    [i \in 1..Len(s) |-> IF s[i] >= 65 /\ s[i] <= 90 THEN s[i] + 32 ELSE s[i]]

(* replace('.', ''): the first dot is removed. *)
RemoveFirstDot(s) ==
    LET dots == {i \in 1..Len(s) : s[i] = Dot} IN
    IF dots = {} THEN s
    ELSE LET first == CHOOSE i \in dots : \A j \in dots : i <= j
         IN  SubSeq(s, 1, first - 1) \o SubSeq(s, first + 1, Len(s))

(* map[e] *)
MimeLookup(e) ==
    IF e \in DOMAIN MimeMap THEN MimeMap[e]
    ELSE IF e = StrConstructor THEN ObjectFunction
    ELSE IF e = StrProto THEN ObjectPrototype
    ELSE UndefinedValue

guessMimeType(name, ext) ==
    LET e0 == IF Truthy(ext) THEN ext
              ELSE IF Truthy(LastSegment(name)) THEN LastSegment(name)
              ELSE << >>
        e == RemoveFirstDot(ToLowerCase(e0))
    IN  IF Truthy(MimeLookup(e)) THEN MimeLookup(e) ELSE OctetStream

(***************************************************************************)
(* The attachment accumulator and the final attachment list.               *)
(***************************************************************************)
NoAttachment == [null |-> TRUE]

NewAttachment ==
    [legacyName |-> << >>, mapiFilename |-> << >>, mapiLongFilename |-> << >>,
     mapiDisplayName |-> << >>, data |-> Null, mimeType |-> OctetStream,
     extension |-> << >>, size |-> 0]

(* The filter without its length test: a.data *)
HasDataNotNull(a) == a.data # Null

(* The filter of finalAttachments: a.data && a.data.length > 0 *)
HasData(a) == a.data # Null /\ Len(a.data) > 0

(* The name with the short filename tried before the long one. *)
ResolveNameShortFirst(a) ==
    IF Truthy(a.mapiFilename) THEN a.mapiFilename
    ELSE IF Truthy(a.mapiLongFilename) THEN a.mapiLongFilename
    ELSE IF Truthy(a.mapiDisplayName) THEN a.mapiDisplayName
    ELSE IF Truthy(a.legacyName) THEN a.legacyName
    ELSE FallbackName

(* a.mapiLongFilename || a.mapiFilename || a.mapiDisplayName
   || a.legacyName || 'attachment' *)
ResolveName(a) ==
    IF Truthy(a.mapiLongFilename) THEN a.mapiLongFilename
    ELSE IF Truthy(a.mapiFilename) THEN a.mapiFilename
    ELSE IF Truthy(a.mapiDisplayName) THEN a.mapiDisplayName
    ELSE IF Truthy(a.legacyName) THEN a.legacyName
    ELSE FallbackName

(* The MIME type always inferred from the name. *)
ResolveMimeTypeGuessed(a) == guessMimeType(ResolveName(a), a.extension)

(* lines 212-214 *)
ResolveMimeType(a) ==
    IF a.mimeType # OctetStream THEN a.mimeType
    ELSE guessMimeType(ResolveName(a), a.extension)

FinalAttachment(a) ==
    [name |-> ResolveName(a), size |-> a.size, data |-> a.data,
     mimeType |-> ResolveMimeType(a)]

RECURSIVE FilterMap(_)
FilterMap(list) ==
    IF list = << >> THEN << >>
    ELSE (IF HasData(Head(list)) THEN <<FinalAttachment(Head(list))>> ELSE << >>)
         \o FilterMap(Tail(list))

finalAttachments(list) == FilterMap(list)

(***************************************************************************)
(* parseTnef.  Each invocation p has its own locals; an invocation runs    *)
(* from "start" (signature) over "key" and "loop" (one attribute per step) *)
(* to "flush" and ends in "done" (returned) or "error" (threw).            *)
(***************************************************************************)
Procs == {1, 2}

VARIABLES
    buffer,             \* the input bytes of the invocation
    pc,                 \* where the invocation is
    pos,                \* decoder.pos
    ansiEncoding,
    subject,
    from,
    body,
    bodyHtml,
    attachments,        \* RawAttachment[]
    currentAttachment,  \* RawAttachment | null
    result,             \* the returned TnefParseResult
    error,              \* the message of the error thrown, "" when none
    dispatched,         \* history: [level, attrId, attrData, ansiEncoding]
                        \* of every attribute whose payload was read, in
                        \* order, with the encoding active when it was read
    call                \* a function or decoder method applied on its own:
                        \* [fn, arg, st, out]: the last call, its status and value

vars == <<buffer, pc, pos, ansiEncoding, subject, from, body, bodyHtml,
          attachments, currentAttachment, result, error, dispatched, call>>

NoCall == [fn |-> "none", arg |-> << >>, st |-> "none", out |-> << >>]
Pending == "pending"
Returned == "returned"
Threw == "threw"

NoResult == [null |-> TRUE]

(* lines 57-60 with the comparison made on the low 16 bits only *)
VerifySignatureLow16(p) ==
    /\ pc[p] = "start"
    /\ LET signature == readUint32LE(buffer[p], pos[p]) IN
       IF ~signature.ok
       THEN /\ pc' = [pc EXCEPT ![p] = "error"]
            /\ error' = [error EXCEPT ![p] = signature.err]
            /\ pos' = pos
       ELSE IF signature.val % Pow2_16 # TNEF_SIGNATURE % Pow2_16
       THEN /\ pc' = [pc EXCEPT ![p] = "error"]
            /\ error' = [error EXCEPT ![p] = ErrSignature]
            /\ pos' = [pos EXCEPT ![p] = signature.pos]
       ELSE /\ pc' = [pc EXCEPT ![p] = "key"]
            /\ error' = error
            /\ pos' = [pos EXCEPT ![p] = signature.pos]
    /\ UNCHANGED <<call, buffer, ansiEncoding, subject, from, body, bodyHtml,
                   attachments, currentAttachment, result, dispatched>>

(* lines 57-60: the signature *)
VerifySignature(p) ==
    /\ pc[p] = "start"
    /\ LET signature == readUint32LE(buffer[p], pos[p]) IN
       IF ~signature.ok
       THEN /\ pc' = [pc EXCEPT ![p] = "error"]
            /\ error' = [error EXCEPT ![p] = signature.err]
            /\ pos' = pos
       ELSE IF signature.val # TNEF_SIGNATURE
       THEN /\ pc' = [pc EXCEPT ![p] = "error"]
            /\ error' = [error EXCEPT ![p] = ErrSignature]
            /\ pos' = [pos EXCEPT ![p] = signature.pos]
       ELSE /\ pc' = [pc EXCEPT ![p] = "key"]
            /\ error' = error
            /\ pos' = [pos EXCEPT ![p] = signature.pos]
    /\ UNCHANGED <<call, buffer, ansiEncoding, subject, from, body, bodyHtml,
                   attachments, currentAttachment, result, dispatched>>

(* lines 62-74 with the text locals declared but not initialised *)
SkipLegacyKeyUnset(p) ==
    /\ pc[p] = "key"
    /\ LET key == readUint16LE(buffer[p], pos[p]) IN
       IF ~key.ok
       THEN /\ pc' = [pc EXCEPT ![p] = "error"]
            /\ error' = [error EXCEPT ![p] = key.err]
            /\ pos' = pos
       ELSE /\ pc' = [pc EXCEPT ![p] = "loop"]
            /\ error' = error
            /\ pos' = [pos EXCEPT ![p] = key.pos]
    /\ ansiEncoding' = [ansiEncoding EXCEPT ![p] = "shift_jis"]
    /\ subject' = [subject EXCEPT ![p] = UndefinedValue]
    /\ from' = [from EXCEPT ![p] = UndefinedValue]
    /\ body' = [body EXCEPT ![p] = UndefinedValue]
    /\ bodyHtml' = [bodyHtml EXCEPT ![p] = UndefinedValue]
    /\ attachments' = [attachments EXCEPT ![p] = << >>]
    /\ currentAttachment' = [currentAttachment EXCEPT ![p] = NoAttachment]
    /\ UNCHANGED <<call, buffer, result, dispatched>>

(* lines 62-74: the legacy key, then the locals *)
SkipLegacyKey(p) ==
    /\ pc[p] = "key"
    /\ LET key == readUint16LE(buffer[p], pos[p]) IN
       IF ~key.ok
       THEN /\ pc' = [pc EXCEPT ![p] = "error"]
            /\ error' = [error EXCEPT ![p] = key.err]
            /\ pos' = pos
       ELSE /\ pc' = [pc EXCEPT ![p] = "loop"]
            /\ error' = error
            /\ pos' = [pos EXCEPT ![p] = key.pos]
    /\ ansiEncoding' = [ansiEncoding EXCEPT ![p] = "shift_jis"]
    /\ subject' = [subject EXCEPT ![p] = << >>]
    /\ from' = [from EXCEPT ![p] = << >>]
    /\ body' = [body EXCEPT ![p] = << >>]
    /\ bodyHtml' = [bodyHtml EXCEPT ![p] = << >>]
    /\ attachments' = [attachments EXCEPT ![p] = << >>]
    /\ currentAttachment' = [currentAttachment EXCEPT ![p] = NoAttachment]
    /\ UNCHANGED <<call, buffer, result, dispatched>>

(* lines 77-79: while (remaining > 0) { if (remaining < 9) break; *)
LoopContinues(p) == pc[p] = "loop" /\ remaining(buffer[p], pos[p]) >= 9

(* lines 81-85: the attribute header, read where the cursor stands *)
(* lines 81-85 without `& 0xFFFF`: the whole type/id word is the id. *)
HeaderAtWholeWord(data, at) ==
    LET level == readUint8(data, at)
        attrType == readUint32LE(data, level.pos)
        attrLength == readUint32LE(data, attrType.pos)
    IN  [level |-> level.val, attrId |-> attrType.val,
         attrLength |-> attrLength.val, pos |-> attrLength.pos]

HeaderAt(data, at) ==
    LET level == readUint8(data, at)
        attrType == readUint32LE(data, level.pos)
        attrLength == readUint32LE(data, attrType.pos)
    IN  [level |-> level.val, attrId |-> attrType.val % Pow2_16,
         attrLength |-> attrLength.val, pos |-> attrLength.pos]

(* line 87: if (attrLength > decoder.remaining) break; *)
LengthExceeds(data, at) ==
    Above(HeaderAt(data, at).attrLength, remaining(data, HeaderAt(data, at).pos))

(* lines 89-94: the payload and the optional checksum *)
(* lines 89-94 without lines 92-94: the checksum is left in the stream. *)
AttributeAtKeepChecksum(data, at) ==
    LET h == HeaderAt(data, at)
        attrData == readBytes(data, h.pos, h.attrLength)
    IN  [level |-> h.level, attrId |-> h.attrId, attrData |-> attrData.val,
         pos |-> attrData.pos]

AttributeAt(data, at) ==
    LET h == HeaderAt(data, at)
        attrData == readBytes(data, h.pos, h.attrLength)
        next == IF remaining(data, attrData.pos) >= 2
                THEN readUint16LE(data, attrData.pos).pos
                ELSE attrData.pos
    IN  [level |-> h.level, attrId |-> h.attrId, attrData |-> attrData.val,
         pos |-> next]

Header(p) == HeaderAt(buffer[p], pos[p])
Attribute(p) == AttributeAt(buffer[p], pos[p])

(* The same with the id alone tested: one switch for both levels. *)
DispatchesAnyLevel(p, level, attrId) ==
    /\ LoopContinues(p)
    /\ ~LengthExceeds(buffer[p], pos[p])
    /\ Attribute(p).attrId = attrId

(* An iteration that reads an attribute of this level and id. *)
Dispatches(p, level, attrId) ==
    /\ LoopContinues(p)
    /\ ~LengthExceeds(buffer[p], pos[p])
    /\ Attribute(p).level = level
    /\ Attribute(p).attrId = attrId

(* The iteration with the cursor left where the attribute began. *)
ConsumeInPlace(p) ==
    /\ pos' = pos
    /\ dispatched' = [dispatched EXCEPT ![p] =
           Append(@, [level |-> Attribute(p).level,
                      attrId |-> Attribute(p).attrId,
                      attrData |-> Attribute(p).attrData,
                      ansiEncoding |-> ansiEncoding[p]])]
    /\ UNCHANGED <<call, buffer, pc, result, error>>

(* What every iteration that reads an attribute does besides its case. *)
Consume(p) ==
    /\ pos' = [pos EXCEPT ![p] = Attribute(p).pos]
    /\ dispatched' = [dispatched EXCEPT ![p] =
           Append(@, [level |-> Attribute(p).level,
                      attrId |-> Attribute(p).attrId,
                      attrData |-> Attribute(p).attrData,
                      ansiEncoding |-> ansiEncoding[p]])]
    /\ UNCHANGED <<call, buffer, pc, result, error>>

(* lines 77-79: the loop ends with fewer than 9 bytes left *)
LoopExit(p) ==
    /\ pc[p] = "loop"
    /\ ~LoopContinues(p)
    /\ pc' = [pc EXCEPT ![p] = "flush"]
    /\ UNCHANGED <<call, buffer, pos, ansiEncoding, subject, from, body, bodyHtml,
                   attachments, currentAttachment, result, error, dispatched>>

(* line 87 throwing instead of leaving the loop *)
LengthBreakThrows(p) ==
    /\ LoopContinues(p)
    /\ LengthExceeds(buffer[p], pos[p])
    /\ pc' = [pc EXCEPT ![p] = "error"]
    /\ error' = [error EXCEPT ![p] = ErrEnd]
    /\ pos' = [pos EXCEPT ![p] = Header(p).pos]
    /\ UNCHANGED <<call, buffer, ansiEncoding, subject, from, body, bodyHtml,
                   attachments, currentAttachment, result, dispatched>>

(* line 87: the declared length exceeds the bytes left *)
LengthBreak(p) ==
    /\ LoopContinues(p)
    /\ LengthExceeds(buffer[p], pos[p])
    /\ pc' = [pc EXCEPT ![p] = "flush"]
    /\ pos' = [pos EXCEPT ![p] = Header(p).pos]
    /\ UNCHANGED <<call, buffer, ansiEncoding, subject, from, body, bodyHtml,
                   attachments, currentAttachment, result, error, dispatched>>

(* The case without the test for 4 bytes: a 2-byte payload is read as a    *)
(* 16-bit codepage.                                                        *)
CaseOemCodepageShort(p) ==
    /\ Dispatches(p, LVL_MESSAGE, ATTR_OEM_CODEPAGE)
    /\ Consume(p)
    /\ ansiEncoding' = [ansiEncoding EXCEPT ![p] =
           IF Len(Attribute(p).attrData) >= 4
           THEN codepageToEncoding(GetUint32(Attribute(p).attrData, 0))
           ELSE IF Len(Attribute(p).attrData) >= 2
           THEN codepageToEncoding(GetUint16(Attribute(p).attrData, 0))
           ELSE @]
    /\ UNCHANGED <<subject, from, body, bodyHtml, attachments,
                   currentAttachment>>

(* lines 98-107 with ansiEncoding held at module level: one variable for   *)
(* all invocations.                                                        *)
CaseOemCodepageShared(p) ==
    /\ Dispatches(p, LVL_MESSAGE, ATTR_OEM_CODEPAGE)
    /\ Consume(p)
    /\ ansiEncoding' =
           IF Len(Attribute(p).attrData) >= 4
           THEN [q \in Procs |->
                    codepageToEncoding(GetUint32(Attribute(p).attrData, 0))]
           ELSE ansiEncoding
    /\ UNCHANGED <<subject, from, body, bodyHtml, attachments,
                   currentAttachment>>

(* lines 98-107 *)
CaseOemCodepage(p) ==
    /\ Dispatches(p, LVL_MESSAGE, ATTR_OEM_CODEPAGE)
    /\ Consume(p)
    /\ ansiEncoding' = [ansiEncoding EXCEPT ![p] =
           IF Len(Attribute(p).attrData) >= 4
           THEN codepageToEncoding(GetUint32(Attribute(p).attrData, 0))
           ELSE @]
    /\ UNCHANGED <<subject, from, body, bodyHtml, attachments,
                   currentAttachment>>

(* lines 108-113 *)
LegacySubject(attrData, encoding) == decodeAnsiString(attrData, encoding)

CaseSubject(p) ==
    /\ Dispatches(p, LVL_MESSAGE, ATTR_SUBJECT)
    /\ Consume(p)
    /\ subject' = [subject EXCEPT ![p] =
           LegacySubject(Attribute(p).attrData, ansiEncoding[p])]
    /\ UNCHANGED <<ansiEncoding, from, body, bodyHtml, attachments,
                   currentAttachment>>

(* lines 114-122 *)
(* lines 114-122 without the 8-byte header: the whole payload is decoded. *)
CaseFromWhole(p) ==
    /\ Dispatches(p, LVL_MESSAGE, ATTR_FROM)
    /\ Consume(p)
    /\ from' = [from EXCEPT ![p] =
           decodeAnsiString(Attribute(p).attrData, ansiEncoding[p])]
    /\ UNCHANGED <<ansiEncoding, subject, body, bodyHtml, attachments,
                   currentAttachment>>

CaseFrom(p) ==
    /\ Dispatches(p, LVL_MESSAGE, ATTR_FROM)
    /\ Consume(p)
    /\ from' = [from EXCEPT ![p] =
           IF Len(Attribute(p).attrData) >= 8
           THEN decodeAnsiString(
                    SubSeq(Attribute(p).attrData, 9, Len(Attribute(p).attrData)),
                    ansiEncoding[p])
           ELSE @]
    /\ UNCHANGED <<ansiEncoding, subject, body, bodyHtml, attachments,
                   currentAttachment>>

(* lines 123-127 *)
CaseBody(p) ==
    /\ Dispatches(p, LVL_MESSAGE, ATTR_BODY)
    /\ Consume(p)
    /\ body' = [body EXCEPT ![p] =
           decodeAnsiString(Attribute(p).attrData, ansiEncoding[p])]
    /\ UNCHANGED <<ansiEncoding, subject, from, bodyHtml, attachments,
                   currentAttachment>>

(* line 131 applied only while no subject is set *)
ApplySubjectIfUnset(old, parsed) ==
    IF Truthy(parsed.subject) /\ ~Truthy(old) THEN parsed.subject ELSE old

(* lines 131-137: the fields of a decoded block applied to the message *)
ApplySubject(old, parsed) == IF Truthy(parsed.subject) THEN parsed.subject ELSE old

ApplySender(old, parsed) ==
    LET named == IF Truthy(parsed.senderName) THEN parsed.senderName ELSE old
    IN  IF Truthy(parsed.senderEmail)
        THEN (IF Truthy(named)
              THEN named \o <<32, 60>> \o parsed.senderEmail \o <<62>>
              ELSE parsed.senderEmail)
        ELSE named

(* line 136 with `parsed.body !== undefined` as its test *)
ApplyBodyIfString(old, parsed) ==
    IF parsed.body # UndefinedValue THEN parsed.body ELSE old

ApplyBody(old, parsed) == IF Truthy(parsed.body) THEN parsed.body ELSE old

ApplyBodyHtml(old, parsed) ==
    IF Truthy(parsed.bodyHtml) THEN parsed.bodyHtml ELSE old

(* lines 128-139 *)
CaseMapiProps(p) ==
    /\ Dispatches(p, LVL_MESSAGE, ATTR_MAPI_PROPS)
    /\ Consume(p)
    /\ LET parsed == parseMapiProps(Attribute(p).attrData, ansiEncoding[p]) IN
       /\ subject' = [subject EXCEPT ![p] = ApplySubject(@, parsed)]
       /\ from' = [from EXCEPT ![p] = ApplySender(@, parsed)]
       /\ body' = [body EXCEPT ![p] = ApplyBody(@, parsed)]
       /\ bodyHtml' = [bodyHtml EXCEPT ![p] = ApplyBodyHtml(@, parsed)]
    /\ UNCHANGED <<ansiEncoding, attachments, currentAttachment>>

(* lines 145-147 left out: the open accumulator is not pushed *)
PushCurrentNever(list, current) == list

(* lines 145-147: if (currentAttachment) attachments.push(currentAttachment) *)
PushCurrent(list, current) ==
    IF current # NoAttachment THEN Append(list, current) ELSE list

(* lines 143-159 *)
CaseRendData(p) ==
    /\ Dispatches(p, LVL_ATTACHMENT, ATTACH_REND_DATA)
    /\ Consume(p)
    /\ attachments' = [attachments EXCEPT ![p] =
           PushCurrent(@, currentAttachment[p])]
    /\ currentAttachment' = [currentAttachment EXCEPT ![p] = NewAttachment]
    /\ UNCHANGED <<ansiEncoding, subject, from, body, bodyHtml>>

(* lines 160-167 *)
CaseTitle(p) ==
    /\ Dispatches(p, LVL_ATTACHMENT, ATTACH_TITLE)
    /\ Consume(p)
    /\ currentAttachment' = [currentAttachment EXCEPT ![p] =
           IF @ # NoAttachment
           THEN [@ EXCEPT !.legacyName =
                    decodeAnsiString(Attribute(p).attrData, ansiEncoding[p])]
           ELSE @]
    /\ UNCHANGED <<ansiEncoding, subject, from, body, bodyHtml, attachments>>

(* lines 168-174 *)
(* lines 168-174 without the test of currentAttachment: a DATA attribute   *)
(* with no accumulator open opens one.                                     *)
CaseDataOpens(p) ==
    /\ Dispatches(p, LVL_ATTACHMENT, ATTACH_DATA)
    /\ Consume(p)
    /\ currentAttachment' = [currentAttachment EXCEPT ![p] =
           [(IF @ # NoAttachment THEN @ ELSE NewAttachment)
               EXCEPT !.data = Attribute(p).attrData,
                      !.size = Len(Attribute(p).attrData)]]
    /\ UNCHANGED <<ansiEncoding, subject, from, body, bodyHtml, attachments>>

CaseData(p) ==
    /\ Dispatches(p, LVL_ATTACHMENT, ATTACH_DATA)
    /\ Consume(p)
    /\ currentAttachment' = [currentAttachment EXCEPT ![p] =
           IF @ # NoAttachment
           THEN [@ EXCEPT !.data = Attribute(p).attrData,
                          !.size = Len(Attribute(p).attrData)]
           ELSE @]
    /\ UNCHANGED <<ansiEncoding, subject, from, body, bodyHtml, attachments>>

(* lines 178-186: the fields of a decoded block applied to the accumulator *)
ApplyMimeTag(a, parsed) ==
    IF Truthy(parsed.mimeType) THEN [a EXCEPT !.mimeType = parsed.mimeType]
    ELSE a

(* The fields applied with parsed.data used only while no payload is set. *)
ApplyAttachPropsKeepData(a, parsed) ==
    LET a1 == IF Truthy(parsed.longFilename)
              THEN [a EXCEPT !.mapiLongFilename = parsed.longFilename] ELSE a
        a2 == IF Truthy(parsed.filename)
              THEN [a1 EXCEPT !.mapiFilename = parsed.filename] ELSE a1
        a3 == IF Truthy(parsed.displayName)
              THEN [a2 EXCEPT !.mapiDisplayName = parsed.displayName] ELSE a2
        a4 == ApplyMimeTag(a3, parsed)
        a5 == IF Truthy(parsed.extension)
              THEN [a4 EXCEPT !.extension = parsed.extension] ELSE a4
    IN  IF parsed.data # UndefinedValue /\ a.data = Null
        THEN [a5 EXCEPT !.data = parsed.data, !.size = Len(parsed.data)]
        ELSE a5

(* lines 178-186 without line 185: the binary payload of a block is stored *)
(* and size is left as it was.                                             *)
ApplyAttachPropsStaleSize(a, parsed) ==
    LET a1 == IF Truthy(parsed.longFilename)
              THEN [a EXCEPT !.mapiLongFilename = parsed.longFilename] ELSE a
        a2 == IF Truthy(parsed.filename)
              THEN [a1 EXCEPT !.mapiFilename = parsed.filename] ELSE a1
        a3 == IF Truthy(parsed.displayName)
              THEN [a2 EXCEPT !.mapiDisplayName = parsed.displayName] ELSE a2
        a4 == ApplyMimeTag(a3, parsed)
        a5 == IF Truthy(parsed.extension)
              THEN [a4 EXCEPT !.extension = parsed.extension] ELSE a4
    IN  IF parsed.data # UndefinedValue
        THEN [a5 EXCEPT !.data = parsed.data]
        ELSE a5

ApplyAttachProps(a, parsed) ==
    LET a1 == IF Truthy(parsed.longFilename)
              THEN [a EXCEPT !.mapiLongFilename = parsed.longFilename] ELSE a
        a2 == IF Truthy(parsed.filename)
              THEN [a1 EXCEPT !.mapiFilename = parsed.filename] ELSE a1
        a3 == IF Truthy(parsed.displayName)
              THEN [a2 EXCEPT !.mapiDisplayName = parsed.displayName] ELSE a2
        a4 == ApplyMimeTag(a3, parsed)
        a5 == IF Truthy(parsed.extension)
              THEN [a4 EXCEPT !.extension = parsed.extension] ELSE a4
    IN  IF parsed.data # UndefinedValue
        THEN [a5 EXCEPT !.data = parsed.data, !.size = Len(parsed.data)]
        ELSE a5

(* lines 175-189 *)
CaseAttachMapiProps(p) ==
    /\ Dispatches(p, LVL_ATTACHMENT, ATTACH_MAPI_PROPS)
    /\ Consume(p)
    /\ currentAttachment' = [currentAttachment EXCEPT ![p] =
           IF @ # NoAttachment
           THEN ApplyAttachProps(@,
                    parseAttachMapiProps(Attribute(p).attrData, ansiEncoding[p]))
           ELSE @]
    /\ UNCHANGED <<ansiEncoding, subject, from, body, bodyHtml, attachments>>

(* The (level, id) pairs with a case in the two switch statements. *)
Handled ==
    {<<LVL_MESSAGE, id>> : id \in {ATTR_OEM_CODEPAGE, ATTR_SUBJECT, ATTR_FROM,
                                   ATTR_BODY, ATTR_MAPI_PROPS}}
    \cup {<<LVL_ATTACHMENT, id>> : id \in {ATTACH_REND_DATA, ATTACH_TITLE,
                                          ATTACH_DATA, ATTACH_MAPI_PROPS}}

(* lines 96-191: an attribute no case matches *)
NoCase(p) ==
    /\ LoopContinues(p)
    /\ ~LengthExceeds(buffer[p], pos[p])
    /\ <<Attribute(p).level, Attribute(p).attrId>> \notin Handled
    /\ Consume(p)
    /\ UNCHANGED <<ansiEncoding, subject, from, body, bodyHtml, attachments,
                   currentAttachment>>

(* lines 194-197: push the last attachment *)
Flushed(list, current) ==
    IF current # NoAttachment THEN Append(list, current) ELSE list

(* lines 194-218: the final flush, the final attachment list, the return *)
ReturnResult(p) ==
    /\ pc[p] = "flush"
    /\ pc' = [pc EXCEPT ![p] = "done"]
    /\ attachments' = [attachments EXCEPT ![p] = Flushed(@, currentAttachment[p])]
    /\ result' = [result EXCEPT ![p] =
           [subject |-> subject[p], from |-> from[p], body |-> body[p],
            bodyHtml |-> bodyHtml[p],
            attachments |->
                finalAttachments(Flushed(attachments[p], currentAttachment[p]))]]
    /\ UNCHANGED <<call, buffer, pos, ansiEncoding, subject, from, body, bodyHtml,
                   currentAttachment, error, dispatched>>

(***************************************************************************)
(* Input buffers.  The byte layout written here is the one the decoder     *)
(* reads: [level][id, type word][length][payload][checksum] records after  *)
(* the signature and the key; a MAPI block is [count] then properties      *)
(* [type][id][1][length][bytes][padding].                                  *)
(***************************************************************************)
LE16(n) == <<n % 256, (n \div 256) % 256>>
LE32(n) ==
    <<n % 256, (n \div 256) % 256, (n \div 65536) % 256, (n \div 16777216) % 256>>

RECURSIVE Concat(_)
Concat(seqs) == IF seqs = << >> THEN << >> ELSE Head(seqs) \o Concat(Tail(seqs))

RECURSIVE SumBytes(_)
SumBytes(bytes) == IF bytes = << >> THEN 0 ELSE Head(bytes) + SumBytes(Tail(bytes))

Zeros(n) == [i \in 1..n |-> 0]

(* One attribute record, with its checksum. *)
Attr(level, attrId, payload) ==
    <<level>> \o LE16(attrId) \o LE16(0) \o LE32(Len(payload)) \o payload
        \o LE16(SumBytes(payload) % Pow2_16)

(* A string as a NUL-terminated ANSI payload and as UTF-16LE with its NUL. *)
Ansi(str) == str \o <<0>>
Utf16(str) == Concat([i \in 1..Len(str) |-> LE16(str[i])]) \o <<0, 0>>

(* A single-valued STRING8 / UNICODE / BINARY property. *)
Prop(propType, propId, bytes) ==
    LE16(propType) \o LE16(propId) \o LE32(1) \o LE32(Len(bytes)) \o bytes
        \o Zeros((4 - (Len(bytes) % 4)) % 4)

(* A STRING8 / UNICODE / BINARY property with any number of values. *)
PropMulti(propType, propId, values) ==
    LE16(propType) \o LE16(propId) \o LE32(Len(values))
        \o Concat([i \in 1..Len(values) |->
                      LE32(Len(values[i])) \o values[i]
                          \o Zeros((4 - (Len(values[i]) % 4)) % 4)])

Block(props) == LE32(Len(props)) \o Concat(props)

Signature == LE32(TNEF_SIGNATURE)
LegacyKey == <<1, 0>>

(* The strings used in the inputs. *)
StrHi == <<72, 105>>                                     \* 'Hi'
StrHello == <<72, 101, 108, 108, 111>>                   \* 'Hello'
StrBody == <<66, 111, 100, 121>>                         \* 'Body'
StrNotes == <<110, 111, 116, 101, 115>>                  \* 'notes'
StrHtml == <<60, 112, 62>>                               \* '<p>'
StrAnn == <<65, 110, 110>>                               \* 'Ann'
StrMail == <<97, 64, 98>>                                \* 'a@b'
StrLegacyTxt == <<108, 101, 103, 97, 99, 121, 46, 116, 120, 116>>  \* 'legacy.txt'
StrReportPdf == <<114, 101, 112, 111, 114, 116, 46, 112, 100, 102>>  \* 'report.pdf'
StrShortGif == <<115, 104, 111, 114, 116, 46, 103, 105, 102>>  \* 'short.gif'
StrDisplay == <<68, 105, 115, 112, 108, 97, 121>>        \* 'Display'
StrImagePng == <<105, 109, 97, 103, 101, 47, 112, 110, 103>>  \* 'image/png'
StrXConstructor ==
    <<120, 46, 99, 111, 110, 115, 116, 114, 117, 99, 116, 111, 114>>  \* 'x.constructor'
StrDotPDF == <<46, 80, 68, 70>>                          \* '.PDF'
StrBob == <<66, 111, 98>>                                \* 'Bob'
StrRepMail == <<114, 64, 115>>                           \* 'r@s'

(* Message-level attributes. *)
AttrOemCodepage == Attr(LVL_MESSAGE, ATTR_OEM_CODEPAGE, LE32(1252))
AttrOemShort == Attr(LVL_MESSAGE, ATTR_OEM_CODEPAGE, <<228, 4>>)
AttrOemUtf8 == Attr(LVL_MESSAGE, ATTR_OEM_CODEPAGE, LE32(65001))
(* Text outside ASCII: byte B1 (half-width katakana A in Shift_JIS, the    *)
(* plus-minus sign in windows-1252) and C3 A9 (e acute in UTF-8).          *)
AttrSubjectKana == Attr(LVL_MESSAGE, ATTR_SUBJECT, <<177, 0>>)
AttrSubjectEAcute == Attr(LVL_MESSAGE, ATTR_SUBJECT, <<195, 169, 0>>)
AttrBodyKana == Attr(LVL_MESSAGE, ATTR_BODY, <<177, 178, 0>>)
AttrSubjectHi == Attr(LVL_MESSAGE, ATTR_SUBJECT, Ansi(StrHi))
AttrBodyNotes == Attr(LVL_MESSAGE, ATTR_BODY, Ansi(StrNotes))
AttrFromAnn == Attr(LVL_MESSAGE, ATTR_FROM, Zeros(8) \o Ansi(StrAnn))
AttrDateSent == Attr(LVL_MESSAGE, ATTR_DATE_SENT, Zeros(4))
AttrMapiSubject ==
    Attr(LVL_MESSAGE, ATTR_MAPI_PROPS,
         Block(<<Prop(PT_UNICODE, PROP_SUBJECT, Utf16(StrHello))>>))
AttrMapiEmptySubject ==
    Attr(LVL_MESSAGE, ATTR_MAPI_PROPS,
         Block(<<Prop(PT_UNICODE, PROP_SUBJECT, Utf16(<< >>))>>))
AttrMapiBody ==
    Attr(LVL_MESSAGE, ATTR_MAPI_PROPS,
         Block(<<Prop(PT_STRING8, PROP_BODY, Ansi(StrBody)),
                 Prop(PT_BINARY, PROP_BODY_HTML, StrHtml)>>))
AttrMapiSender ==
    Attr(LVL_MESSAGE, ATTR_MAPI_PROPS,
         Block(<<Prop(PT_UNICODE, PROP_SENDER_NAME, Utf16(StrAnn)),
                 Prop(PT_STRING8, PROP_SENDER_EMAIL, Ansi(StrMail))>>))
(* Malformed blocks: no room for the count; a count of 3 before one        *)
(* property whose value length runs past the payload.                      *)
AttrMapiShort == Attr(LVL_MESSAGE, ATTR_MAPI_PROPS, <<1, 0>>)
AttrMapiOverrun ==
    Attr(LVL_MESSAGE, ATTR_MAPI_PROPS,
         LE32(3) \o LE16(PT_STRING8) \o LE16(PROP_SUBJECT) \o LE32(1)
             \o LE32(200) \o Ansi(StrHi))

(* A property whose declared value length runs past the payload, and a    *)
(* named property cut inside its GUID.                                     *)
PropOverrun(propId) ==
    LE16(PT_STRING8) \o LE16(propId) \o LE32(1) \o LE32(200) \o Ansi(StrHi)
PropNamedCut == LE16(PT_STRING8) \o LE16(NAMED_PROP_MIN + 1) \o Zeros(8)
AttrMapiSubjectThenOverrun ==
    Attr(LVL_MESSAGE, ATTR_MAPI_PROPS,
         Block(<<Prop(PT_UNICODE, PROP_SUBJECT, Utf16(StrHello)),
                 PropOverrun(PROP_BODY)>>))
AttrMapiSubjectThenNamedCut ==
    Attr(LVL_MESSAGE, ATTR_MAPI_PROPS,
         Block(<<Prop(PT_UNICODE, PROP_SUBJECT, Utf16(StrHello)), PropNamedCut>>))

(* Named properties (id >= 0x8000) with a STRING8 value: named by id      *)
(* (kind 0) and named by a 5-byte string (kind 1), each before a SUBJECT.  *)
Guid == [i \in 1..16 |-> 160 + i]
PropNamedById(bytes) ==
    LE16(PT_STRING8) \o LE16(NAMED_PROP_MIN + 1) \o Guid \o LE32(0) \o LE32(34064)
        \o LE32(1) \o LE32(Len(bytes)) \o bytes \o Zeros((4 - (Len(bytes) % 4)) % 4)
PropNamedByString(bytes) ==
    LE16(PT_STRING8) \o LE16(NAMED_PROP_MIN + 2) \o Guid \o LE32(1) \o LE32(5)
        \o <<75, 0, 101, 0, 121>> \o Zeros(3)
        \o LE32(1) \o LE32(Len(bytes)) \o bytes \o Zeros((4 - (Len(bytes) % 4)) % 4)
AttrMapiNamedById ==
    Attr(LVL_MESSAGE, ATTR_MAPI_PROPS,
         Block(<<PropNamedById(Ansi(<<88>>)),
                 Prop(PT_UNICODE, PROP_SUBJECT, Utf16(StrHello))>>))
AttrMapiNamedByString ==
    Attr(LVL_MESSAGE, ATTR_MAPI_PROPS,
         Block(<<PropNamedByString(Ansi(<<89, 90>>)),
                 Prop(PT_UNICODE, PROP_SUBJECT, Utf16(StrBody))>>))

(* Blocks with several sender properties. *)
AttrMapiSenders ==
    Attr(LVL_MESSAGE, ATTR_MAPI_PROPS,
         Block(<<Prop(PT_UNICODE, PROP_SENT_REPR_NAME, Utf16(StrBob)),
                 Prop(PT_UNICODE, PROP_SENDER_NAME, Utf16(StrAnn)),
                 Prop(PT_STRING8, PROP_SENT_REPR_EMAIL, Ansi(StrRepMail)),
                 Prop(PT_STRING8, PROP_SENDER_EMAIL, Ansi(StrMail))>>))
AttrMapiEmptyNameFirst ==
    Attr(LVL_MESSAGE, ATTR_MAPI_PROPS,
         Block(<<Prop(PT_UNICODE, PROP_SENDER_NAME, Utf16(<< >>)),
                 Prop(PT_UNICODE, PROP_SENT_REPR_NAME, Utf16(StrBob)),
                 Prop(PT_STRING8, PROP_SENDER_EMAIL, Ansi(StrMail)),
                 Prop(PT_UNICODE, PROP_SENDER_NAME, Utf16(StrAnn))>>))
AttrMapiEmailOnly ==
    Attr(LVL_MESSAGE, ATTR_MAPI_PROPS,
         Block(<<Prop(PT_STRING8, PROP_SENDER_EMAIL, Ansi(StrMail))>>))

(* Blocks with a property whose value count is 0 or 2. *)
AttrMapiSubjectCount0 ==
    Attr(LVL_MESSAGE, ATTR_MAPI_PROPS,
         Block(<<PropMulti(PT_STRING8, PROP_SUBJECT, << >>)>>))
AttrMapiSubjectCount2 ==
    Attr(LVL_MESSAGE, ATTR_MAPI_PROPS,
         Block(<<PropMulti(PT_UNICODE, PROP_SUBJECT,
                           <<Utf16(StrHello), Utf16(StrHi)>>)>>))
AttrMapiBodyThenSubjectCount2 ==
    Attr(LVL_MESSAGE, ATTR_MAPI_PROPS,
         Block(<<Prop(PT_STRING8, PROP_BODY, Ansi(StrBody)),
                 PropMulti(PT_STRING8, PROP_SUBJECT,
                           <<Ansi(StrHello), Ansi(StrHi)>>)>>))

(* Attachment-level attributes. *)
AttrRendData == Attr(LVL_ATTACHMENT, ATTACH_REND_DATA, Zeros(2))
AttrTitle == Attr(LVL_ATTACHMENT, ATTACH_TITLE, Ansi(StrLegacyTxt))
AttrData5 == Attr(LVL_ATTACHMENT, ATTACH_DATA, <<1, 2, 3, 4, 5>>)
AttrData3 == Attr(LVL_ATTACHMENT, ATTACH_DATA, <<7, 8, 9>>)
AttrData0 == Attr(LVL_ATTACHMENT, ATTACH_DATA, << >>)
AttachBlock(props) == Attr(LVL_ATTACHMENT, ATTACH_MAPI_PROPS, Block(props))
PropLong(str) == Prop(PT_UNICODE, PROP_ATTACH_LONG_FILENAME, Utf16(str))
PropShort(str) == Prop(PT_STRING8, PROP_ATTACH_FILENAME, Ansi(str))
PropDisplay(str) == Prop(PT_UNICODE, PROP_DISPLAY_NAME, Utf16(str))
PropMimeTag(str) == Prop(PT_STRING8, PROP_ATTACH_MIME_TAG, Ansi(str))
PropExtension(str) == Prop(PT_STRING8, PROP_ATTACH_EXTENSION, Ansi(str))
PropDataBin(bytes) == Prop(PT_BINARY, PROP_ATTACH_DATA_BIN, bytes)

AttachLongCount2 ==
    AttachBlock(<<PropMulti(PT_UNICODE, PROP_ATTACH_LONG_FILENAME,
                            <<Utf16(StrReportPdf), Utf16(StrShortGif)>>)>>)
AttachDataBinCount0 ==
    AttachBlock(<<PropMulti(PT_BINARY, PROP_ATTACH_DATA_BIN, << >>)>>)
AttachDataBinCount2 ==
    AttachBlock(<<PropMulti(PT_BINARY, PROP_ATTACH_DATA_BIN, <<(<<6, 6>>), <<5>>>>)>>)
AttachDataBin == AttachBlock(<<PropDataBin(<<6, 6>>)>>)
AttachDataBinEmpty == AttachBlock(<<PropDataBin(<< >>)>>)
AttachLongAndDataBin == AttachBlock(<<PropLong(StrReportPdf), PropDataBin(<<9>>)>>)
AttachLongThenOverrun ==
    AttachBlock(<<PropLong(StrReportPdf), PropOverrun(PROP_ATTACH_FILENAME)>>)

(* An attribute of a level that is neither message nor attachment. *)
AttrLevel3 == Attr(3, ATTR_SUBJECT, Ansi(StrHi))

(* All sequences of at most n attributes of the set S, concatenated. *)
RECURSIVE Streams(_, _)
Streams(S, n) ==
    IF n = 0 THEN {<< >>}
    ELSE LET shorter == Streams(S, n - 1)
         IN  shorter \cup {s \o a : s \in shorter, a \in S}

Prefixes(bytes) == {SubSeq(bytes, 1, k) : k \in 0..Len(bytes)}

MaxMsgAttrs == 3
MaxLegacyAttrs == 5
MaxNameAttrs == 4
MaxMimeAttrs == 2
MaxCutAttrs == 3
MaxOddAttrs == 2
MaxDataAttrs == 5
MaxBlockAttrs == 2
MaxAttBlockAttrs == 3
MaxEncodingAttrs == 3
MaxValueProps == 2
MaxIdleAttrs == 2

MsgTemplates ==
    {AttrOemCodepage, AttrSubjectHi, AttrBodyNotes, AttrFromAnn, AttrDateSent,
     AttrMapiSubject, AttrMapiBody, AttrMapiSender, AttrLevel3}

(* Attributes with short or malformed payloads. *)
OddTemplates ==
    {AttrOemShort, AttrMapiEmptySubject, AttrMapiShort, AttrMapiOverrun,
     AttrSubjectHi}

LegacyTemplates == {AttrRendData, AttrTitle, AttrData5, AttrData3}

DataTemplates == {AttrRendData, AttrData0, AttrData3}

NameTemplates ==
    {AttrTitle, AttachBlock(<<PropLong(StrReportPdf)>>),
     AttachBlock(<<PropShort(StrShortGif)>>),
     AttachBlock(<<PropDisplay(StrDisplay)>>)}

MimeTemplates ==
    {AttrTitle, AttachBlock(<<PropLong(StrReportPdf)>>),
     AttachBlock(<<PropLong(StrXConstructor)>>),
     AttachBlock(<<PropShort(StrDisplay)>>),
     AttachBlock(<<PropExtension(StrDotPDF)>>),
     AttachBlock(<<PropMimeTag(StrImagePng)>>),
     AttachBlock(<<PropMimeTag(OctetStream)>>),
     AttachBlock(<<PropMimeTag(<< >>)>>),
     AttachBlock(<<PropDataBin(<<6, 6>>)>>)}

CutTemplates == {AttrSubjectHi, AttrRendData, AttrData3}

(* Message-level blocks with failing, multi-valued, named and sender       *)
(* properties, among legacy attributes.                                    *)
BlockTemplates ==
    {AttrSubjectHi, AttrBodyNotes, AttrMapiSubjectThenOverrun,
     AttrMapiSubjectThenNamedCut, AttrMapiSubjectCount0, AttrMapiSubjectCount2,
     AttrMapiBodyThenSubjectCount2, AttrMapiNamedById, AttrMapiNamedByString,
     AttrMapiSenders, AttrMapiEmptyNameFirst, AttrMapiEmailOnly, AttrFromAnn}

(* The same at attachment level. *)
AttBlockTemplates ==
    {AttrTitle, AttrData5, AttachLongThenOverrun, AttachLongCount2,
     AttachDataBinCount0, AttachDataBinCount2, AttachDataBin, AttachDataBinEmpty,
     AttachLongAndDataBin}

(* Codepage attributes among texts outside ASCII. *)
EncodingTemplates ==
    {AttrOemCodepage, AttrOemUtf8, AttrOemShort, AttrSubjectKana,
     AttrSubjectEAcute, AttrBodyKana}

(* Properties of every type.  A fixed-width value is [type][id][bytes];   *)
(* ids 23, 57 and 3591 are routed nowhere.                                 *)
PropFixed(propType, propId, bytes) == LE16(propType) \o LE16(propId) \o bytes

(* Properties that yield a value: SHORT, LONG, BOOLEAN, SYSTIME and        *)
(* single-valued STRING8, BINARY and UNICODE of 5, 3 and 8 bytes.          *)
ValueProps ==
    {PropFixed(PT_SHORT, 23, <<7, 0, 0, 0>>),
     PropFixed(PT_LONG, 3591, <<1, 2, 3, 4>>),
     PropFixed(PT_BOOLEAN, 23, <<1, 0, 0, 0>>),
     PropFixed(PT_SYSTIME, 57, <<1, 2, 3, 4, 5, 6, 7, 8>>),
     Prop(PT_STRING8, PROP_BODY, Ansi(StrBody)),
     Prop(PT_BINARY, PROP_BODY_HTML, StrHtml),
     Prop(PT_UNICODE, PROP_SENDER_NAME, Utf16(StrAnn))}

(* Properties that yield none: value counts 0 and 2, a multi-value type,   *)
(* type 13 (no case), a value length past the block.                       *)
StopProps ==
    {PropMulti(PT_STRING8, PROP_SUBJECT, << >>),
     PropMulti(PT_UNICODE, PROP_SUBJECT, <<Utf16(StrHi), Utf16(StrHi)>>),
     PropMulti(PT_MV_UNICODE, PROP_SUBJECT, <<Utf16(StrHi)>>),
     PropFixed(13, PROP_SUBJECT, <<1, 2, 3, 4>>),
     PropOverrun(PROP_BODY)}

RECURSIVE PropSeqs(_, _)
PropSeqs(S, n) ==
    IF n = 0 THEN {<< >>}
    ELSE PropSeqs(S, n - 1) \cup {Append(s, x) : s \in PropSeqs(S, n - 1), x \in S}

(* Blocks of up to MaxValueProps such properties before a SUBJECT 'Hello', *)
(* after a legacy SUBJECT 'Hi'.                                            *)
ValueBlocks ==
    {Block(s \o <<Prop(PT_UNICODE, PROP_SUBJECT, Utf16(StrHello))>>) :
        s \in PropSeqs(ValueProps \cup StopProps, MaxValueProps)}

(* Attachment-level blocks: a long filename, one such property, then a     *)
(* short filename.                                                         *)
AttValueBlocks ==
    {Block(<<PropLong(StrReportPdf), x, PropShort(StrShortGif)>>) :
        x \in ValueProps \cup StopProps}

(* A property of two values whose first length field is 0xFFFFFFFC. *)
PropWrap(propType) ==
    LE16(propType) \o LE16(PROP_SUBJECT) \o LE32(2) \o <<252, 255, 255, 255>>
WrapBlocks ==
    {Block(<<PropWrap(t), Prop(PT_UNICODE, PROP_SUBJECT, Utf16(StrHello))>>) :
        t \in {PT_STRING8, PT_UNICODE, PT_BINARY, PT_MV_STRING8}}

(* An attribute without its checksum, and what may follow a payload: two   *)
(* bytes that are not the sum of the payload, one byte, nothing.           *)
AttrBare(level, attrId, payload) ==
    <<level>> \o LE16(attrId) \o LE16(0) \o LE32(Len(payload)) \o payload
WrongSums == {<<0, 0>>, <<255, 255>>, <<1, 2>>}
ChecksumBuffers ==
    {Signature \o LegacyKey \o AttrBare(LVL_MESSAGE, ATTR_SUBJECT, Ansi(StrHi))
         \o c \o AttrBare(LVL_MESSAGE, ATTR_BODY, Ansi(StrNotes)) \o tail :
        c \in WrongSums, tail \in {<< >>, <<9>>} \cup WrongSums}
    \cup {Signature \o LegacyKey \o AttrRendData
              \o AttrBare(LVL_ATTACHMENT, ATTACH_DATA, <<7, 8, 9>>) \o tail :
              tail \in {<< >>, <<9>>} \cup WrongSums}

(* Blocks whose count field is not the number of their properties: a count *)
(* of 0, 1, 2, 5 or 0xFFFFFFFF before two properties and a tail of 0, 4 or *)
(* 5 bytes (the tag of a STRING8 SUBJECT and one byte).                    *)
DeclaredCounts == {LE32(0), LE32(1), LE32(2), LE32(5), <<255, 255, 255, 255>>}
BlockTails == {<< >>, <<30, 0, 55, 0>>, <<30, 0, 55, 0, 1>>}
CountBuffers ==
    {Signature \o LegacyKey \o AttrSubjectHi
         \o Attr(LVL_MESSAGE, ATTR_MAPI_PROPS,
                 c \o Prop(PT_UNICODE, PROP_SUBJECT, Utf16(StrHello))
                   \o Prop(PT_STRING8, PROP_BODY, Ansi(StrBody)) \o tail) :
        c \in DeclaredCounts, tail \in BlockTails}
    \cup {Signature \o LegacyKey \o AttrRendData \o AttrData3
              \o Attr(LVL_ATTACHMENT, ATTACH_MAPI_PROPS,
                      c \o PropLong(StrReportPdf) \o PropShort(StrShortGif)
                        \o tail) :
              c \in DeclaredCounts, tail \in BlockTails}

(* FROM payloads: shorter than the 8-byte header, the header alone, a      *)
(* name without NUL, a name and an address with their NULs, a header of    *)
(* non-zero bytes, a NUL before the name.                                  *)
FromPayloads ==
    {<< >>, <<65, 66, 67>>, Zeros(7), Zeros(8), Zeros(8) \o StrAnn,
     Zeros(8) \o Ansi(StrAnn) \o Ansi(StrMail),
     <<1, 2, 3, 4, 5, 6, 7, 8>> \o Ansi(StrHi),
     Zeros(8) \o <<0>> \o Ansi(StrAnn)}
FromBuffers ==
    {Signature \o LegacyKey \o a \o Attr(LVL_MESSAGE, ATTR_FROM, b) :
        a \in {<< >>, AttrFromAnn, AttrSubjectHi}, b \in FromPayloads}

(* An attribute whose type/id word has high 16 bits hi, and one stream     *)
(* (SUBJECT 'Hi', REND_DATA, DATA of 3 bytes) under four values of hi.     *)
AttrTyped(hi, level, attrId, payload) ==
    <<level>> \o LE16(attrId) \o LE16(hi) \o LE32(Len(payload)) \o payload
        \o LE16(SumBytes(payload) % Pow2_16)
TypedBuffers ==
    {Signature \o LegacyKey
         \o AttrTyped(hi, LVL_MESSAGE, ATTR_SUBJECT, Ansi(StrHi))
         \o AttrTyped(hi, LVL_ATTACHMENT, ATTACH_REND_DATA, Zeros(2))
         \o AttrTyped(hi, LVL_ATTACHMENT, ATTACH_DATA, <<7, 8, 9>>) :
        hi \in {0, 6, 32768, 65535}}

(* Attachment-level attributes with no REND_DATA before them, after a      *)
(* SUBJECT 'Hi'; some with a REND_DATA and a DATA after them.              *)
IdleTemplates == {AttrTitle, AttrData3, AttachLongAndDataBin}
IdleBuffers ==
    {Signature \o LegacyKey \o AttrSubjectHi \o s \o t :
        s \in Streams(IdleTemplates, MaxIdleAttrs),
        t \in {<< >>, AttrRendData \o AttrData5}}

(* Attributes no case handles: levels 0 and 255, the unlisted ids 0x9006   *)
(* and 0x8011, message-level ids at attachment level and attachment-level  *)
(* ids at message level; each after a SUBJECT, a REND_DATA and a DATA, and *)
(* before nothing or a BODY.                                               *)
UnhandledTemplates ==
    {Attr(0, ATTR_BODY, Ansi(StrHello)),
     Attr(255, ATTR_SUBJECT, Ansi(StrHello)),
     Attr(LVL_MESSAGE, 36870, Zeros(4)),
     Attr(LVL_ATTACHMENT, 32785, <<1>>),
     Attr(LVL_ATTACHMENT, ATTR_SUBJECT, Ansi(StrHello)),
     Attr(LVL_ATTACHMENT, ATTR_OEM_CODEPAGE, LE32(1252)),
     Attr(LVL_ATTACHMENT, ATTR_MAPI_PROPS,
          Block(<<Prop(PT_UNICODE, PROP_SUBJECT, Utf16(StrHello))>>)),
     Attr(LVL_MESSAGE, ATTACH_REND_DATA, Zeros(2)),
     Attr(LVL_MESSAGE, ATTACH_DATA, <<1, 2, 3, 4, 5>>),
     Attr(LVL_MESSAGE, ATTACH_TITLE, Ansi(StrHello)),
     Attr(LVL_MESSAGE, ATTACH_MAPI_PROPS, Block(<<PropLong(StrReportPdf)>>))}
UnhandledBuffers ==
    {Signature \o LegacyKey \o AttrSubjectHi \o AttrRendData \o AttrData3
         \o u \o t : u \in UnhandledTemplates, t \in {<< >>, AttrBodyNotes}}

(* Blocks of one property whose value is empty (a NUL alone, or no bytes),  *)
(* or of a property 'Hello' and then an empty one with the same id; read   *)
(* after every message field, or every field of an accumulator, was set.   *)
EmptyMsgProps ==
    {Prop(t, id, v) :
        t \in {PT_UNICODE},
        id \in {PROP_SUBJECT, PROP_BODY, PROP_BODY_HTML, PROP_SENDER_NAME,
                PROP_SENDER_EMAIL},
        v \in {<<0, 0>>, << >>}}
    \cup {Prop(PT_STRING8, PROP_BODY, <<0>>),
          Prop(PT_BINARY, PROP_BODY_HTML, << >>)}
EmptyAttProps ==
    {PropLong(<< >>), PropShort(<< >>), PropDisplay(<< >>), PropMimeTag(<< >>),
     PropExtension(<< >>),
     Prop(PT_UNICODE, PROP_ATTACH_LONG_FILENAME, << >>)}
EmptyBuffers ==
    {Signature \o LegacyKey \o AttrSubjectHi \o AttrBodyNotes \o AttrFromAnn
         \o AttrMapiBody \o Attr(LVL_MESSAGE, ATTR_MAPI_PROPS, Block(<<e>>)) :
        e \in EmptyMsgProps}
    \cup {Signature \o LegacyKey \o AttrSubjectHi \o AttrBodyNotes
              \o Attr(LVL_MESSAGE, ATTR_MAPI_PROPS,
                      Block(<<Prop(PT_UNICODE, id, Utf16(StrHello)),
                              Prop(PT_UNICODE, id, Utf16(<< >>))>>)) :
              id \in {PROP_SUBJECT, PROP_BODY}}
    \cup {Signature \o LegacyKey \o AttrRendData \o AttrData3
              \o AttachBlock(<<PropLong(StrReportPdf), PropShort(StrShortGif)>>)
              \o AttachBlock(<<PropDisplay(StrDisplay), PropMimeTag(StrImagePng)>>)
              \o AttachBlock(<<PropExtension(StrDotPDF)>>)
              \o AttachBlock(<<e>>) : e \in EmptyAttProps}

(* Complete streams. *)
ValueBuffers ==
    {Signature \o LegacyKey \o Attr(LVL_MESSAGE, ATTR_MAPI_PROPS, b) :
        b \in WrapBlocks} \cup
    {Signature \o LegacyKey \o AttrSubjectHi
         \o Attr(LVL_MESSAGE, ATTR_MAPI_PROPS, b) : b \in ValueBlocks}
    \cup {Signature \o LegacyKey \o AttrRendData \o AttrData3
              \o Attr(LVL_ATTACHMENT, ATTACH_MAPI_PROPS, b) : b \in AttValueBlocks}
EncodingBuffers ==
    {Signature \o LegacyKey \o s : s \in Streams(EncodingTemplates, MaxEncodingAttrs)}
MsgBuffers == {Signature \o LegacyKey \o s : s \in Streams(MsgTemplates, MaxMsgAttrs)}
OddBuffers == {Signature \o LegacyKey \o s : s \in Streams(OddTemplates, MaxOddAttrs)}
LegacyBuffers ==
    {Signature \o LegacyKey \o s : s \in Streams(LegacyTemplates, MaxLegacyAttrs)}
DataBuffers ==
    {Signature \o LegacyKey \o s : s \in Streams(DataTemplates, MaxDataAttrs)}
NameBuffers ==
    {Signature \o LegacyKey \o AttrRendData \o s \o AttrData3 :
        s \in Streams(NameTemplates, MaxNameAttrs)}
MimeBuffers ==
    {Signature \o LegacyKey \o AttrRendData \o s \o AttrData3 :
        s \in Streams(MimeTemplates, MaxMimeAttrs)}

BlockBuffers ==
    {Signature \o LegacyKey \o s : s \in Streams(BlockTemplates, MaxBlockAttrs)}
AttBlockBuffers ==
    {Signature \o LegacyKey \o AttrRendData \o s :
        s \in Streams(AttBlockTemplates, MaxAttBlockAttrs)}

(* Streams cut at every length, the signature and the key included. *)
CutBuffers ==
    UNION {Prefixes(Signature \o LegacyKey \o s) :
              s \in Streams(CutTemplates, MaxCutAttrs)}

(* Buffers whose first four bytes are not the signature: one byte of it    *)
(* changed, or its bytes in big-endian order; followed by a valid stream.  *)
BadSignatures ==
    {[Signature EXCEPT ![i] = (@ + 1) % 256] : i \in 1..4}
    \cup {<<Signature[4], Signature[3], Signature[2], Signature[1]>>}
BadBuffers ==
    {sig \o tail : sig \in BadSignatures,
                   tail \in Prefixes(LegacyKey \o AttrSubjectHi \o AttrRendData
                                         \o AttrData3)}

Buffers ==
    MsgBuffers \cup OddBuffers \cup LegacyBuffers \cup DataBuffers
        \cup NameBuffers \cup MimeBuffers \cup CutBuffers \cup BadBuffers
        \cup BlockBuffers \cup AttBlockBuffers \cup EncodingBuffers
        \cup ValueBuffers \cup ChecksumBuffers \cup CountBuffers
        \cup FromBuffers \cup TypedBuffers \cup IdleBuffers
        \cup UnhandledBuffers \cup EmptyBuffers

(***************************************************************************)
(* The specification: one invocation on any of the buffers; the other      *)
(* never starts.                                                           *)
(***************************************************************************)
InitWith(bufs, pcs) ==
    /\ buffer = bufs
    /\ pc = pcs
    /\ pos = [p \in Procs |-> 0]
    /\ ansiEncoding = [p \in Procs |-> "shift_jis"]
    /\ subject = [p \in Procs |-> << >>]
    /\ from = [p \in Procs |-> << >>]
    /\ body = [p \in Procs |-> << >>]
    /\ bodyHtml = [p \in Procs |-> << >>]
    /\ attachments = [p \in Procs |-> << >>]
    /\ currentAttachment = [p \in Procs |-> NoAttachment]
    /\ result = [p \in Procs |-> NoResult]
    /\ error = [p \in Procs |-> ""]
    /\ dispatched = [p \in Procs |-> << >>]

Init ==
    /\ \E b \in Buffers :
           InitWith([p \in Procs |-> IF p = 1 THEN b ELSE << >>],
                    [p \in Procs |-> IF p = 1 THEN "start" ELSE "idle"])
    /\ call = NoCall

Next ==
    \E p \in Procs :
        \/ VerifySignature(p)
        \/ SkipLegacyKey(p)
        \/ LoopExit(p)
        \/ LengthBreak(p)
        \/ CaseOemCodepage(p)
        \/ CaseSubject(p)
        \/ CaseFrom(p)
        \/ CaseBody(p)
        \/ CaseMapiProps(p)
        \/ CaseRendData(p)
        \/ CaseTitle(p)
        \/ CaseData(p)
        \/ CaseAttachMapiProps(p)
        \/ NoCase(p)
        \/ ReturnResult(p)

Spec == Init /\ [][Next]_vars

(***************************************************************************)
(* pad4 and codepageToEncoding applied on their own: the argument is drawn *)
(* at the start, the step applies the function.  No parse runs.            *)
(***************************************************************************)
MaxPadInput == 40
MaxPadEdge == 7
MaxCodepageLow == 3

(* Lengths 0..MaxPadInput, and the lengths around 2^31 and below 2^32      *)
(* (held as v - 2^32).                                                     *)
PadInputs ==
    (0..MaxPadInput)
        \cup {MaxInt32 - k : k \in 0..MaxPadEdge}
        \cup {MinInt32 + k : k \in 0..MaxPadEdge}
        \cup {(-1) - k : k \in 0..MaxPadEdge}

(* The codepages of the table, their neighbours, and the ends of the       *)
(* 32-bit range.                                                           *)
Codepages ==
    (0..MaxCodepageLow) \cup (930..934) \cup {935, 936, 937, 948, 949, 950, 951}
        \cup (1248..1260) \cup {65000, 65001, 65002, MaxInt32, MinInt32, -1}

Idle == [p \in Procs |-> "idle"]
NoBuffers == [p \in Procs |-> << >>]
parseVars == <<buffer, pc, pos, ansiEncoding, subject, from, body, bodyHtml,
               attachments, currentAttachment, result, error, dispatched>>

InitFunctions ==
    /\ InitWith(NoBuffers, Idle)
    /\ call \in {[fn |-> "pad4", arg |-> n, st |-> Pending, out |-> << >>] :
                 n \in PadInputs}
              \cup {[fn |-> "codepageToEncoding", arg |-> cp, st |-> Pending,
                    out |-> << >>] : cp \in Codepages}

CallPad4 ==
    /\ call.fn = "pad4" /\ call.st = Pending
    /\ call' = [call EXCEPT !.st = Returned, !.out = pad4(call.arg)]
    /\ UNCHANGED parseVars

CallCodepageToEncoding ==
    /\ call.fn = "codepageToEncoding" /\ call.st = Pending
    /\ call' = [call EXCEPT !.st = Returned,
                            !.out = codepageToEncoding(call.arg)]
    /\ UNCHANGED parseVars

NextFunctions == CallPad4 \/ CallCodepageToEncoding

SpecFunctions == InitFunctions /\ [][NextFunctions]_vars

(***************************************************************************)
(* A TnefDecoder on its own: any sequence of readUint8, readUint16LE,      *)
(* readUint32LE, readBytes and skip on one buffer.  buffer[1] is the       *)
(* decoder's data, pos[1] its cursor, error[1] the message of the last     *)
(* call that threw; call holds the last call and its value.                *)
(***************************************************************************)
MaxDecoderLen == 5
MaxDecoderBack == 4

DecoderBuffers == {[i \in 1..n |-> 160 + i] : n \in 0..MaxDecoderLen}

(* Lengths given to readBytes: unsigned 32-bit values. *)
ReadLengths == (0..(MaxDecoderLen + 1)) \cup {MaxInt32, MinInt32, -1}

(* Lengths given to skip: literals, results of pad4 (possibly negative).   *)
SkipLengths == ((0 - MaxDecoderBack)..(MaxDecoderLen + 1)) \cup {MaxInt32}

InitDecoder ==
    /\ \E b \in DecoderBuffers :
           InitWith([p \in Procs |-> IF p = 1 THEN b ELSE << >>], Idle)
    /\ call = NoCall

DecoderCall(fn, arg, r) ==
    /\ pos' = [pos EXCEPT ![1] = r.pos]
    /\ error' = [error EXCEPT ![1] = r.err]
    /\ call' = [fn |-> fn, arg |-> arg,
                st |-> IF r.ok THEN Returned ELSE Threw,
                out |-> IF r.ok THEN r.val ELSE << >>]
    /\ UNCHANGED <<buffer, pc, ansiEncoding, subject, from, body, bodyHtml,
                   attachments, currentAttachment, result, dispatched>>

CallReadUint8 == DecoderCall("readUint8", << >>, readUint8(buffer[1], pos[1]))

CallReadUint16LE ==
    DecoderCall("readUint16LE", << >>, readUint16LE(buffer[1], pos[1]))

CallReadUint32LE ==
    DecoderCall("readUint32LE", << >>, readUint32LE(buffer[1], pos[1]))

CallReadBytes ==
    \E length \in ReadLengths :
        DecoderCall("readBytes", length, readBytes(buffer[1], pos[1], length))

(* The cursor of the model is kept above -MaxDecoderBack. *)
CallSkip ==
    \E length \in SkipLengths :
        /\ length >= (0 - MaxDecoderBack) - pos[1]
        /\ DecoderCall("skip", length,
                       Return(<< >>, skip(buffer[1], pos[1], length)))

NextDecoder ==
    \/ CallReadUint8
    \/ CallReadUint16LE
    \/ CallReadUint32LE
    \/ CallReadBytes
    \/ CallSkip

SpecDecoder == InitDecoder /\ [][NextDecoder]_vars

(***************************************************************************)
(* Two invocations on two buffers, their steps interleaved in any order.   *)
(***************************************************************************)
PairBuffers ==
    {Signature \o LegacyKey,
     Signature \o LegacyKey \o AttrOemCodepage \o AttrSubjectKana \o AttrBodyNotes,
     Signature \o LegacyKey \o AttrSubjectKana \o AttrFromAnn \o AttrMapiSender,
     Signature \o LegacyKey \o AttrRendData \o AttrTitle \o AttrData3
         \o AttrRendData \o AttachBlock(<<PropLong(StrReportPdf)>>) \o AttrData5,
     Signature \o LegacyKey \o AttrLevel3 \o SubSeq(AttrSubjectHi, 1, 10),
     <<Signature[4], Signature[3], Signature[2], Signature[1], 1, 0>>}
        \cup TypedBuffers

InitPair ==
    /\ \E bufs \in [Procs -> PairBuffers] :
           InitWith(bufs, [p \in Procs |-> "start"])
    /\ call = NoCall

SpecPair == InitPair /\ [][Next]_vars

(***************************************************************************)
(* parseTnef is synchronous: once called it runs to its return or throw,   *)
(* so a step that is possible is eventually taken.  One invocation on      *)
(* truncated, malformed and complete streams.                              *)
(***************************************************************************)
LiveBuffers ==
    PairBuffers
        \cup Prefixes(Signature \o LegacyKey \o AttrSubjectHi \o AttrRendData
                          \o AttrData3)
        \cup {Signature \o LegacyKey \o s : s \in BlockTemplates}
        \cup {Signature \o LegacyKey \o AttrRendData \o s : s \in AttBlockTemplates}

InitLive ==
    /\ \E b \in LiveBuffers :
           InitWith([p \in Procs |-> IF p = 1 THEN b ELSE << >>],
                    [p \in Procs |-> IF p = 1 THEN "start" ELSE "idle"])
    /\ call = NoCall

(* An iteration that reads an attribute, and when one is possible. *)
Dispatch(p) ==
    \/ CaseOemCodepage(p)
    \/ CaseSubject(p)
    \/ CaseFrom(p)
    \/ CaseBody(p)
    \/ CaseMapiProps(p)
    \/ CaseRendData(p)
    \/ CaseTitle(p)
    \/ CaseData(p)
    \/ CaseAttachMapiProps(p)
    \/ NoCase(p)

CanDispatch(p) == LoopContinues(p) /\ ~LengthExceeds(buffer[p], pos[p])

(* Weak fairness of every step of an invocation; for the iteration that    *)
(* reads an attribute, WF_vars(Dispatch(p)) is written with the condition  *)
(* under which it is enabled.                                              *)
Fairness ==
    \A p \in Procs :
        /\ WF_vars(VerifySignature(p))
        /\ WF_vars(SkipLegacyKey(p))
        /\ WF_vars(LoopExit(p))
        /\ WF_vars(LengthBreak(p))
        /\ WF_vars(ReturnResult(p))
        /\ ([]<>(~CanDispatch(p)) \/ []<><<Dispatch(p)>>_vars)

SpecLive == InitLive /\ [][Next]_vars /\ Fairness

(***************************************************************************)
(* Properties.                                                             *)
(***************************************************************************)
Started(p) == pc[p] \notin {"idle", "start"}

(* The first four bytes of the buffer are the signature bytes 78 9f 3e 22. *)
HasSignature(p) ==
    Len(buffer[p]) >= 4 /\ SubSeq(buffer[p], 1, 4) = <<120, 159, 62, 34>>

(* Entry i of the history is a message-level block that yields field f. *)
IsMsgEntry(e, attrId) == e.level = LVL_MESSAGE /\ e.attrId = attrId
IsAttEntry(e, attrId) == e.level = LVL_ATTACHMENT /\ e.attrId = attrId
MsgBlock(e) == parseMapiProps(e.attrData, e.ansiEncoding)
AttBlock(e) == parseAttachMapiProps(e.attrData, e.ansiEncoding)
YieldsSubject(e) == IsMsgEntry(e, ATTR_MAPI_PROPS) /\ Truthy(MsgBlock(e).subject)
YieldsBody(e) == IsMsgEntry(e, ATTR_MAPI_PROPS) /\ Truthy(MsgBlock(e).body)

(* C1: a buffer of at least 4 bytes whose first 4 bytes are not the        *)
(* signature makes parseTnef throw 'Not a valid TNEF (winmail.dat) file',  *)
(* with no result and no attribute read, whatever bytes follow.            *)
C1_BadSignatureIsRejected ==
    \A p \in Procs :
        (Started(p) /\ Len(buffer[p]) >= 4 /\ ~HasSignature(p))
            => /\ pc[p] = "error"
               /\ error[p] = ErrSignature
               /\ result[p] = NoResult
               /\ dispatched[p] = << >>

(* C1 witness: a rejected buffer that differs from the signature in its    *)
(* fourth byte only and carries a whole attribute stream after it.         *)
C1_Witness ==
    \E p \in Procs :
        /\ pc[p] = "error" /\ error[p] = ErrSignature
        /\ SubSeq(buffer[p], 1, 3) = <<120, 159, 62>> /\ buffer[p][4] # 34
        /\ Len(buffer[p]) > 30

(* C2: with the signature present parseTnef never throws, also when the    *)
(* buffer ends before or inside the legacy key.                            *)
C2_OnlySignatureIsFatal ==
    \A p \in Procs : HasSignature(p) => pc[p] # "error"

(* The subject of the last block of the history that yields one. *)
LastMapiSubject(log) ==
    LET at == {i \in 1..Len(log) : YieldsSubject(log[i])}
        last == CHOOSE i \in at : \A j \in at : j <= i
    IN  MsgBlock(log[last]).subject

LastMapiBody(log) ==
    LET at == {i \in 1..Len(log) : YieldsBody(log[i])}
        last == CHOOSE i \in at : \A j \in at : j <= i
    IN  MsgBlock(log[last]).body

(* C3: once a message-level MAPI block has set a non-empty subject (body), *)
(* the returned subject (body) is the MAPI one, wherever the legacy        *)
(* SUBJECT (BODY) attributes stand in the stream.                          *)
C3_LegacyNeverOverridesMapi ==
    \A p \in Procs :
        pc[p] = "done" =>
            /\ (\E i \in 1..Len(dispatched[p]) : YieldsSubject(dispatched[p][i]))
                   => result[p].subject = LastMapiSubject(dispatched[p])
            /\ (\E i \in 1..Len(dispatched[p]) : YieldsBody(dispatched[p][i]))
                   => result[p].body = LastMapiBody(dispatched[p])

(* C4: a MAPI block that yields a non-empty subject S (body B) and is      *)
(* followed by no attribute that sets the subject (body) gives the         *)
(* returned subject S (body B), whatever legacy value came before it.      *)
C4_MapiAfterLegacyWins ==
    \A p \in Procs :
        pc[p] = "done" =>
            \A j \in 1..Len(dispatched[p]) :
                LET log == dispatched[p] IN
                /\ (/\ YieldsSubject(log[j])
                    /\ \A k \in (j + 1)..Len(log) :
                           ~IsMsgEntry(log[k], ATTR_SUBJECT) /\ ~YieldsSubject(log[k]))
                       => result[p].subject = MsgBlock(log[j]).subject
                /\ (/\ YieldsBody(log[j])
                    /\ \A k \in (j + 1)..Len(log) :
                           ~IsMsgEntry(log[k], ATTR_BODY) /\ ~YieldsBody(log[k]))
                       => result[p].body = MsgBlock(log[j]).body

(* C4 witness: legacy SUBJECT 'Hi', then a block with subject 'Hello',     *)
(* returned with subject 'Hello'.                                          *)
C4_Witness ==
    \E p \in Procs :
        /\ pc[p] = "done"
        /\ Len(dispatched[p]) = 2
        /\ IsMsgEntry(dispatched[p][1], ATTR_SUBJECT)
        /\ decodeAnsiString(dispatched[p][1].attrData, "shift_jis") = <<72, 105>>
        /\ YieldsSubject(dispatched[p][2])
        /\ result[p].subject = <<72, 101, 108, 108, 111>>

(***************************************************************************)
(* Groups: the k-th group of a history is its k-th attachment-level        *)
(* REND_DATA entry and the entries after it up to the next one.  The k-th  *)
(* accumulator of the parse belongs to the k-th group.                     *)
(***************************************************************************)
RendAt(log) == {i \in 1..Len(log) : IsAttEntry(log[i], ATTACH_REND_DATA)}
GroupCount(log) == Cardinality(RendAt(log))
GroupStart(log, k) ==
    CHOOSE i \in RendAt(log) : Cardinality({j \in RendAt(log) : j <= i}) = k
GroupEntries(log, k) ==
    {i \in 1..Len(log) :
        /\ i >= GroupStart(log, k)
        /\ k < GroupCount(log) => i < GroupStart(log, k + 1)}
MaxOf(S) == CHOOSE i \in S : \A j \in S : j <= i

(* The payload of the group's last DATA attribute, Null without one. *)
GroupData(log, k) ==
    LET at == {i \in GroupEntries(log, k) : IsAttEntry(log[i], ATTACH_DATA)}
    IN  IF at = {} THEN Null ELSE log[MaxOf(at)].attrData

(* The text of the group's last TITLE attribute, empty without one. *)
GroupTitle(log, k) ==
    LET at == {i \in GroupEntries(log, k) : IsAttEntry(log[i], ATTACH_TITLE)}
    IN  IF at = {} THEN << >>
        ELSE decodeAnsiString(log[MaxOf(at)].attrData, log[MaxOf(at)].ansiEncoding)

(* The last non-empty value the group's MAPI blocks yield for each field. *)
GroupBlocks(log, k) ==
    {i \in GroupEntries(log, k) : IsAttEntry(log[i], ATTACH_MAPI_PROPS)}
GroupLong(log, k) ==
    LET at == {i \in GroupBlocks(log, k) : Truthy(AttBlock(log[i]).longFilename)}
    IN  IF at = {} THEN << >> ELSE AttBlock(log[MaxOf(at)]).longFilename
GroupShort(log, k) ==
    LET at == {i \in GroupBlocks(log, k) : Truthy(AttBlock(log[i]).filename)}
    IN  IF at = {} THEN << >> ELSE AttBlock(log[MaxOf(at)]).filename
GroupDisplay(log, k) ==
    LET at == {i \in GroupBlocks(log, k) : Truthy(AttBlock(log[i]).displayName)}
    IN  IF at = {} THEN << >> ELSE AttBlock(log[MaxOf(at)]).displayName
GroupExtension(log, k) ==
    LET at == {i \in GroupBlocks(log, k) : Truthy(AttBlock(log[i]).extension)}
    IN  IF at = {} THEN << >> ELSE AttBlock(log[MaxOf(at)]).extension
GroupMimeTag(log, k) ==
    LET at == {i \in GroupBlocks(log, k) : Truthy(AttBlock(log[i]).mimeType)}
    IN  IF at = {} THEN << >> ELSE AttBlock(log[MaxOf(at)]).mimeType
(* The last MIME tag string recovered in the group, empty or not;          *)
(* UndefinedValue when no block of the group recovered one.                *)
GroupRecoveredTag(log, k) ==
    LET at == {i \in GroupBlocks(log, k) : AttBlock(log[i]).mimeType # UndefinedValue}
    IN  IF at = {} THEN UndefinedValue ELSE AttBlock(log[MaxOf(at)]).mimeType

(* An accumulator with a payload of at least one byte, and the place of    *)
(* the k-th accumulator in the final list when it has one.                 *)
HasPayload(a) == a.data # Null /\ a.data # << >>
FinalIndex(raw, k) == Cardinality({j \in 1..k : HasPayload(raw[j])})
NameAndSize(a) == [name |-> a.name, size |-> a.size]

(* C5: in a stream made of REND_DATA, TITLE and DATA attachment attributes *)
(* that starts with REND_DATA, the returned attachments are, in stream     *)
(* order, one per group whose DATA payload is not empty, with size the     *)
(* payload length and name the group's TITLE, or 'attachment' without one. *)
C5_LegacyGroup(log, k) ==
    [name |-> IF GroupTitle(log, k) # << >> THEN GroupTitle(log, k)
              ELSE <<97, 116, 116, 97, 99, 104, 109, 101, 110, 116>>,
     size |-> IF GroupData(log, k) = Null THEN 0 ELSE Len(GroupData(log, k))]
C5_NonEmpty(g) == g.size > 0
C5_LegacyStream(log) ==
    /\ Len(log) > 0 /\ IsAttEntry(log[1], ATTACH_REND_DATA)
    /\ \A i \in 1..Len(log) :
           \/ IsAttEntry(log[i], ATTACH_REND_DATA)
           \/ IsAttEntry(log[i], ATTACH_TITLE)
           \/ IsAttEntry(log[i], ATTACH_DATA)
C5_LegacyGroups ==
    \A p \in Procs :
        (pc[p] = "done" /\ C5_LegacyStream(dispatched[p])) =>
            LET log == dispatched[p]
                expected == SelectSeq([k \in 1..GroupCount(log) |->
                                          C5_LegacyGroup(log, k)], C5_NonEmpty)
                got == result[p].attachments
            IN  /\ Len(got) = Len(expected)
                /\ \A i \in 1..Len(got) : NameAndSize(got[i]) = expected[i]

(* C5 witness: REND_DATA, TITLE 'legacy.txt', DATA of 5 bytes, REND_DATA,  *)
(* DATA of 3 bytes returned as [{legacy.txt, 5}, {attachment, 3}].         *)
C5_Witness ==
    \E p \in Procs :
        /\ pc[p] = "done"
        /\ [i \in 1..Len(dispatched[p]) |-> dispatched[p][i].attrId]
               = <<ATTACH_REND_DATA, ATTACH_TITLE, ATTACH_DATA,
                   ATTACH_REND_DATA, ATTACH_DATA>>
        /\ C5_LegacyStream(dispatched[p])
        /\ [i \in 1..Len(result[p].attachments) |->
                NameAndSize(result[p].attachments[i])]
               = << [name |-> <<108, 101, 103, 97, 99, 121, 46, 116, 120, 116>>,
                     size |-> 5],
                    [name |-> <<97, 116, 116, 97, 99, 104, 109, 101, 110, 116>>,
                     size |-> 3] >>

(* C6: every returned attachment has a payload of at least one byte, and   *)
(* the returned payloads are those of the accumulators that have one, in   *)
(* accumulator order; the others are dropped and the parse still returns.  *)
C6_OnlyPayloadsSurvive ==
    \A p \in Procs :
        pc[p] = "done" =>
            LET raw == attachments[p]
                got == result[p].attachments
            IN  /\ \A i \in 1..Len(got) : Len(got[i].data) > 0
                /\ Len(got) = Cardinality({k \in 1..Len(raw) : HasPayload(raw[k])})
                /\ \A k \in 1..Len(raw) :
                       HasPayload(raw[k]) =>
                           got[FinalIndex(raw, k)].data = raw[k].data

(* C6 witness: an accumulator without payload and one with an empty        *)
(* payload are dropped, and one after them is returned.                    *)
C6_Witness ==
    \E p \in Procs :
        /\ pc[p] = "done"
        /\ \E i, j, k \in 1..Len(attachments[p]) :
               /\ i < k /\ j < k
               /\ attachments[p][i].data = Null
               /\ attachments[p][j].data = << >>
               /\ HasPayload(attachments[p][k])
        /\ Len(result[p].attachments) = 1

(* C7: the name of every returned attachment is the first non-empty of the *)
(* long filename, short filename and display name its group's MAPI blocks  *)
(* yield and the group's TITLE, in that order, else 'attachment', in       *)
(* whatever order the TITLE and MAPI_PROPS attributes arrived.             *)
C7_Priority(long, short, display, title) ==
    IF long # << >> THEN long
    ELSE IF short # << >> THEN short
    ELSE IF display # << >> THEN display
    ELSE IF title # << >> THEN title
    ELSE <<97, 116, 116, 97, 99, 104, 109, 101, 110, 116>>
C7_NamePriority ==
    \A p \in Procs :
        pc[p] = "done" =>
            LET raw == attachments[p]
                log == dispatched[p]
            IN  /\ Len(raw) = GroupCount(log)
                /\ \A k \in 1..Len(raw) :
                       HasPayload(raw[k]) =>
                           result[p].attachments[FinalIndex(raw, k)].name
                               = C7_Priority(GroupLong(log, k), GroupShort(log, k),
                                             GroupDisplay(log, k), GroupTitle(log, k))

(* C7 witness: all four name fields present, the TITLE read after the      *)
(* block with the long filename, and the long filename returned.           *)
C7_Witness ==
    \E p \in Procs :
        /\ pc[p] = "done"
        /\ GroupCount(dispatched[p]) = 1
        /\ GroupShort(dispatched[p], 1) # << >>
        /\ GroupDisplay(dispatched[p], 1) # << >>
        /\ \E i, j \in 1..Len(dispatched[p]) :
               /\ i < j
               /\ IsAttEntry(dispatched[p][i], ATTACH_MAPI_PROPS)
               /\ Truthy(AttBlock(dispatched[p][i]).longFilename)
               /\ IsAttEntry(dispatched[p][j], ATTACH_TITLE)
        /\ Len(result[p].attachments) = 1
        /\ result[p].attachments[1].name
               = <<114, 101, 112, 111, 114, 116, 46, 112, 100, 102>>

(* The lower-case extension of a string: what follows its last dot. *)
ExtensionOf(s) == ToLowerCase(LastSegment(s))

(* C8: a returned attachment whose group recovered no MIME tag has the     *)
(* table's MIME type for the lower-case extension of its extension field   *)
(* or else of its name when the table has that extension, and              *)
(* 'application/octet-stream' when it has not.                             *)
C8_InferredMimeType ==
    \A p \in Procs :
        pc[p] = "done" =>
            LET raw == attachments[p]
                log == dispatched[p]
            IN  \A k \in 1..Len(raw) :
                    (HasPayload(raw[k]) /\ GroupRecoveredTag(log, k) = UndefinedValue) =>
                        LET got == result[p].attachments[FinalIndex(raw, k)]
                            e == IF GroupExtension(log, k) # << >>
                                 THEN ExtensionOf(GroupExtension(log, k))
                                 ELSE ExtensionOf(got.name)
                        IN  got.mimeType = IF e \in DOMAIN MimeMap THEN MimeMap[e]
                                           ELSE OctetStream

(* C9 as claimed: when a block of the group recovered a MIME tag string,   *)
(* the returned MIME type is that string, whatever its value.              *)
C9_AnyRecoveredTagWins ==
    \A p \in Procs :
        pc[p] = "done" =>
            LET raw == attachments[p]
                log == dispatched[p]
            IN  \A k \in 1..Len(raw) :
                    (HasPayload(raw[k]) /\ GroupRecoveredTag(log, k) # UndefinedValue) =>
                        result[p].attachments[FinalIndex(raw, k)].mimeType
                            = GroupRecoveredTag(log, k)

(* C9: when the last non-empty MIME tag the group's blocks recovered is    *)
(* not 'application/octet-stream', the returned MIME type is that tag,     *)
(* whatever the attachment's name or extension.                            *)
C9_SpecificTagWins ==
    \A p \in Procs :
        pc[p] = "done" =>
            LET raw == attachments[p]
                log == dispatched[p]
            IN  \A k \in 1..Len(raw) :
                    (/\ HasPayload(raw[k])
                     /\ GroupMimeTag(log, k) # << >>
                     /\ GroupMimeTag(log, k) # OctetStream) =>
                        result[p].attachments[FinalIndex(raw, k)].mimeType
                            = GroupMimeTag(log, k)

(* C9 witness: the tag 'image/png' recovered for an attachment named       *)
(* 'report.pdf' and returned as its MIME type.                             *)
C9_Witness ==
    \E p \in Procs :
        /\ pc[p] = "done"
        /\ GroupCount(dispatched[p]) = 1
        /\ GroupMimeTag(dispatched[p], 1) = <<105, 109, 97, 103, 101, 47, 112, 110, 103>>
        /\ Len(result[p].attachments) = 1
        /\ result[p].attachments[1].name
               = <<114, 101, 112, 111, 114, 116, 46, 112, 100, 102>>
        /\ result[p].attachments[1].mimeType
               = <<105, 109, 97, 103, 101, 47, 112, 110, 103>>

(* The length the header at the cursor declares exceeds the bytes after    *)
(* the 9 header bytes.                                                     *)
DeclaresTooMuch(p) ==
    /\ pc[p] = "loop"
    /\ Len(buffer[p]) - pos[p] >= 9
    /\ Above(GetUint32(buffer[p], pos[p] + 5), Len(buffer[p]) - (pos[p] + 9))

RawLength(p) == GetUint32(buffer[p], pos[p] + 5)
RawPayload(p) == SubSeq(buffer[p], pos[p] + 10, pos[p] + 9 + RawLength(p))

(* The cursor stands before a whole attribute of this level and id. *)
AtAttribute(p, level, attrId) ==
    /\ pc[p] = "loop"
    /\ Len(buffer[p]) - pos[p] >= 9
    /\ buffer[p][pos[p] + 1] = level
    /\ GetUint16(buffer[p], pos[p] + 1) = attrId
    /\ ~Above(RawLength(p), Len(buffer[p]) - (pos[p] + 9))

(* The number of whole attribute records from offset at on. *)
RECURSIVE CountRecords(_, _)
CountRecords(data, at) ==
    IF Len(data) - at < 9 THEN 0
    ELSE LET length == GetUint32(data, at + 5)
             after == at + 9 + length
         IN  IF Above(length, Len(data) - (at + 9)) THEN 0
             ELSE 1 + CountRecords(data, IF Len(data) - after >= 2 THEN after + 2
                                         ELSE after)

RoundUp4(n) == ((n + 3) \div 4) * 4

(* The bytes of a named-property header at offset at: 24 when named by id, *)
(* 24 and the padded name when named by string, -1 when it is cut short.   *)
NamedHeaderLength(data, at) ==
    IF at + 20 > Len(data) THEN -1
    ELSE IF GetUint32(data, at + 16) = 0 THEN 24
    ELSE IF at + 24 > Len(data) THEN -1
    ELSE 24 + RoundUp4(GetUint32(data, at + 20))

(* The single-valued STRING8, UNICODE and BINARY properties of a block in  *)
(* block order, up to the declared count, the end of the block or the      *)
(* first property that is not one; stop says why the walk ended:           *)
(* "end", "overrun" (a value length past the block), "header" (a cut       *)
(* named-property header), "count" (a value count other than 1) or         *)
(* "other".  at is where the property that stopped the walk starts.        *)
RECURSIVE WalkProps(_, _, _, _)
WalkProps(data, at, left, seen) ==
    IF left = 0 \/ Len(data) - at <= 4
    THEN [props |-> seen, stop |-> "end", at |-> at]
    ELSE
      LET propType == GetUint16(data, at)
          propId == GetUint16(data, at + 2)
          header == IF propId >= NAMED_PROP_MIN
                    THEN NamedHeaderLength(data, at + 4) ELSE 0
          v == at + 4 + header
      IN  IF header < 0 THEN [props |-> seen, stop |-> "header", at |-> at]
          ELSE IF propType \notin {PT_STRING8, PT_UNICODE, PT_BINARY}
                  \/ v + 4 > Len(data)
               THEN [props |-> seen, stop |-> "other", at |-> at]
          ELSE IF GetUint32(data, v) # 1
               THEN [props |-> seen, stop |-> "count", at |-> at]
          ELSE IF v + 8 > Len(data)
                  \/ Above(GetUint32(data, v + 4), Len(data) - (v + 8))
               THEN [props |-> seen, stop |-> "overrun", at |-> at]
          ELSE LET length == GetUint32(data, v + 4)
                   after == v + 8 + RoundUp4(length)
               IN  WalkProps(data, IF after > Len(data) THEN Len(data) ELSE after,
                             left - 1,
                             Append(seen, [propType |-> propType, propId |-> propId,
                                           bytes |-> SubSeq(data, v + 9, v + 8 + length)]))

(* The walk of a whole block; a block too short for its count has no       *)
(* properties and stops as "short".                                        *)
WalkBlock(data) ==
    IF Len(data) < 4 THEN [props |-> << >>, stop |-> "short", at |-> 0]
    ELSE WalkProps(data, 4, GetUint32(data, 0), << >>)

(* The text of a string property. *)
TextOf(prop) ==
    IF prop.propType = PT_UNICODE THEN decodeUnicodeString(prop.bytes)
    ELSE DecodeWindows1252(SubSeq(prop.bytes, 1, IndexOfNul(prop.bytes)))
IsText(prop) == prop.propType \in {PT_STRING8, PT_UNICODE}

(* The text of the last string property with this id, empty without one. *)
LastText(props, propId) ==
    LET at == {i \in 1..Len(props) : props[i].propId = propId /\ IsText(props[i])}
    IN  IF at = {} THEN << >> ELSE TextOf(props[MaxOf(at)])

Applied(old, new) == IF new # << >> THEN new ELSE old

(* C11: a block whose decoding fails (too short for its count, a value     *)
(* length past the block, a cut named-property header) raises nothing:     *)
(* the fields of the properties before the failure are applied, the        *)
(* cursor moves past the attribute, and every attribute record of the      *)
(* buffer is processed.                                                    *)
C11_Failed(data) == WalkBlock(data).stop \in {"short", "overrun", "header"}
C11_BlockFailureAbsorbed ==
    /\ [][\A p \in Procs :
            (AtAttribute(p, LVL_MESSAGE, ATTR_MAPI_PROPS) /\ C11_Failed(RawPayload(p))) =>
                LET props == WalkBlock(RawPayload(p)).props IN
                /\ pc'[p] \in {"loop"} /\ error'[p] = ""
                /\ (pos'[p] # pos[p]) =>
                       /\ Len(dispatched'[p]) = Len(dispatched[p]) + 1
                       /\ subject'[p] = Applied(subject[p], LastText(props, PROP_SUBJECT))
                       /\ body'[p] = Applied(body[p], LastText(props, PROP_BODY))]_vars
    /\ [][\A p \in Procs :
            (/\ AtAttribute(p, LVL_ATTACHMENT, ATTACH_MAPI_PROPS)
             /\ C11_Failed(RawPayload(p))
             /\ currentAttachment[p] # NoAttachment) =>
                LET props == WalkBlock(RawPayload(p)).props IN
                /\ pc'[p] \in {"loop"} /\ error'[p] = ""
                /\ (pos'[p] # pos[p]) =>
                       /\ Len(dispatched'[p]) = Len(dispatched[p]) + 1
                       /\ currentAttachment'[p].mapiLongFilename =
                              Applied(currentAttachment[p].mapiLongFilename,
                                      LastText(props, PROP_ATTACH_LONG_FILENAME))
                       /\ currentAttachment'[p].mapiFilename =
                              Applied(currentAttachment[p].mapiFilename,
                                      LastText(props, PROP_ATTACH_FILENAME))]_vars
    /\ [](\A p \in Procs :
            pc[p] = "done" => Len(dispatched[p]) = CountRecords(buffer[p], 6))

(* C11 witness: a block with subject 'Hello' before a value that runs past *)
(* the block, then a BODY attribute; both are in the result.               *)
C11_Witness ==
    \E p \in Procs :
        /\ pc[p] = "done"
        /\ Len(dispatched[p]) = 2
        /\ IsMsgEntry(dispatched[p][1], ATTR_MAPI_PROPS)
        /\ WalkBlock(dispatched[p][1].attrData).stop = "overrun"
        /\ Len(WalkBlock(dispatched[p][1].attrData).props) = 1
        /\ IsMsgEntry(dispatched[p][2], ATTR_BODY)
        /\ result[p].subject = <<72, 101, 108, 108, 111>>
        /\ result[p].body = <<110, 111, 116, 101, 115>>

(* The id of the property that stopped the walk of a block. *)
StoppedId(data) == GetUint16(data, WalkBlock(data).at + 2)
NoneBefore(data, ids) ==
    \A i \in 1..Len(WalkBlock(data).props) : WalkBlock(data).props[i].propId \notin ids

(* C12: a STRING8, UNICODE or BINARY property whose value count is not 1   *)
(* sets no field of the block result, and the message or attachment field  *)
(* its id stands for keeps the value it had before the block, when no      *)
(* earlier property of the block has that id.                              *)
C12_StopsAt(data, ids) ==
    /\ WalkBlock(data).stop = "count"
    /\ StoppedId(data) \in ids
    /\ NoneBefore(data, ids)
C12_CountNotOneYieldsNothing ==
    /\ [][\A p \in Procs :
            AtAttribute(p, LVL_MESSAGE, ATTR_MAPI_PROPS) =>
                LET data == RawPayload(p)
                    parsed == parseMapiProps(data, ansiEncoding[p])
                IN  /\ C12_StopsAt(data, {PROP_SUBJECT}) =>
                           parsed.subject = UndefinedValue /\ subject'[p] = subject[p]
                    /\ C12_StopsAt(data, {PROP_BODY}) =>
                           parsed.body = UndefinedValue /\ body'[p] = body[p]
                    /\ C12_StopsAt(data, {PROP_BODY_HTML}) =>
                           parsed.bodyHtml = UndefinedValue /\ bodyHtml'[p] = bodyHtml[p]
                    /\ C12_StopsAt(data, {PROP_SENDER_NAME, PROP_SENT_REPR_NAME,
                                          PROP_SENDER_EMAIL, PROP_SENT_REPR_EMAIL}) =>
                           from'[p] = from[p]]_vars
    /\ [][\A p \in Procs :
            (/\ AtAttribute(p, LVL_ATTACHMENT, ATTACH_MAPI_PROPS)
             /\ currentAttachment[p] # NoAttachment
             /\ pos'[p] # pos[p]) =>
                LET data == RawPayload(p)
                    parsed == parseAttachMapiProps(data, ansiEncoding[p])
                    old == currentAttachment[p]
                    new == currentAttachment'[p]
                IN  /\ C12_StopsAt(data, {PROP_ATTACH_LONG_FILENAME}) =>
                           /\ parsed.longFilename = UndefinedValue
                           /\ new.mapiLongFilename = old.mapiLongFilename
                    /\ C12_StopsAt(data, {PROP_ATTACH_FILENAME}) =>
                           /\ parsed.filename = UndefinedValue
                           /\ new.mapiFilename = old.mapiFilename
                    /\ C12_StopsAt(data, {PROP_DISPLAY_NAME}) =>
                           /\ parsed.displayName = UndefinedValue
                           /\ new.mapiDisplayName = old.mapiDisplayName
                    /\ C12_StopsAt(data, {PROP_ATTACH_MIME_TAG}) =>
                           parsed.mimeType = UndefinedValue /\ new.mimeType = old.mimeType
                    /\ C12_StopsAt(data, {PROP_ATTACH_EXTENSION}) =>
                           parsed.extension = UndefinedValue /\ new.extension = old.extension
                    /\ C12_StopsAt(data, {PROP_ATTACH_DATA_BIN}) =>
                           /\ parsed.data = UndefinedValue
                           /\ new.data = old.data /\ new.size = old.size]_vars

(* C12 witness: legacy subject 'Hi', then a block whose only property is a *)
(* SUBJECT with two values; the subject returned is still 'Hi'.            *)
C12_Witness ==
    \E p \in Procs :
        /\ pc[p] = "done"
        /\ Len(dispatched[p]) = 2
        /\ IsMsgEntry(dispatched[p][1], ATTR_SUBJECT)
        /\ IsMsgEntry(dispatched[p][2], ATTR_MAPI_PROPS)
        /\ C12_StopsAt(dispatched[p][2].attrData, {PROP_SUBJECT})
        /\ GetUint32(dispatched[p][2].attrData, 8) = 2
        /\ result[p].subject = <<72, 105>>

(* The first property of the block is a named one with a whole header and  *)
(* a single STRING8 value; where that value starts, counted from the bytes *)
(* after the type/id pair: 24, or 24 and the padded name.                  *)
C13_ValueAt(data) == 8 + NamedHeaderLength(data, 8)
C13_NamedFirst(data) ==
    /\ Len(data) >= 8
    /\ GetUint16(data, 4) = PT_STRING8
    /\ GetUint16(data, 6) >= NAMED_PROP_MIN
    /\ NamedHeaderLength(data, 8) >= 24
    /\ C13_ValueAt(data) + 8 <= Len(data)
    /\ GetUint32(data, C13_ValueAt(data)) = 1
    /\ ~Above(GetUint32(data, C13_ValueAt(data) + 4),
              Len(data) - (C13_ValueAt(data) + 8))
C13_ValueText(data) ==
    LET v == C13_ValueAt(data)
        bytes == SubSeq(data, v + 9, v + 8 + GetUint32(data, v + 4))
    IN  DecodeWindows1252(SubSeq(bytes, 1, IndexOfNul(bytes)))

(* C13: for a property with id >= 0x8000 the decoder passes 24 header      *)
(* bytes when the kind is 0, and 24 bytes and the padded name otherwise,   *)
(* then reads the value with the usual type dispatch: a single STRING8     *)
(* value is decoded to its exact text, the cursor ends after its padding,  *)
(* and the properties after it in the block are applied.                   *)
C13_NamedHeaderSkipped ==
    /\ [](\A p \in Procs :
            \A i \in 1..Len(dispatched[p]) :
                LET e == dispatched[p][i] IN
                (IsMsgEntry(e, ATTR_MAPI_PROPS) /\ C13_NamedFirst(e.attrData)) =>
                    LET r == ReadProperty(e.attrData, 4, e.ansiEncoding)
                        v == C13_ValueAt(e.attrData)
                    IN  /\ NamedHeaderLength(e.attrData, 8) =
                              IF GetUint32(e.attrData, 24) = 0 THEN 24
                              ELSE 24 + pad4(GetUint32(e.attrData, 28))
                        /\ r.ok /\ r.value.t = "string"
                        /\ r.value.v = C13_ValueText(e.attrData)
                        /\ r.value.pos = v + 8 + RoundUp4(GetUint32(e.attrData, v + 4)))
    /\ [][\A p \in Procs :
            (/\ AtAttribute(p, LVL_MESSAGE, ATTR_MAPI_PROPS)
             /\ C13_NamedFirst(RawPayload(p))
             /\ WalkBlock(RawPayload(p)).stop = "end") =>
                subject'[p] = Applied(subject[p],
                                      LastText(WalkBlock(RawPayload(p)).props,
                                               PROP_SUBJECT))]_vars

(* C13 witness: a block whose named property of kind 0 holds 'X' and       *)
(* whose SUBJECT after it is 'Hello', then a block whose property named    *)
(* by a string holds 'YZ' and whose SUBJECT after it is 'Body'; the        *)
(* subject returned is 'Body'.                                             *)
C13_Witness ==
    \E p \in Procs :
        /\ pc[p] = "done"
        /\ Len(dispatched[p]) = 2
        /\ C13_NamedFirst(dispatched[p][1].attrData)
        /\ GetUint32(dispatched[p][1].attrData, 24) = 0
        /\ C13_ValueAt(dispatched[p][1].attrData) = 32
        /\ C13_ValueText(dispatched[p][1].attrData) = <<88>>
        /\ C13_NamedFirst(dispatched[p][2].attrData)
        /\ GetUint32(dispatched[p][2].attrData, 24) = 1
        /\ C13_ValueAt(dispatched[p][2].attrData) = 40
        /\ C13_ValueText(dispatched[p][2].attrData) = <<89, 90>>
        /\ result[p].subject = <<66, 111, 100, 121>>

(* The text of the first string property with one of these ids that is not *)
(* empty; empty without one.                                               *)
FirstText(props, ids) ==
    LET at == {i \in 1..Len(props) :
                  /\ props[i].propId \in ids
                  /\ IsText(props[i])
                  /\ TextOf(props[i]) # << >>}
    IN  IF at = {} THEN << >>
        ELSE TextOf(props[CHOOSE i \in at : \A j \in at : i <= j])

(* C14: in a message-level block the sender name is the first non-empty    *)
(* string among its SENDER_NAME and SENT_REPR_NAME properties, the sender  *)
(* email the first non-empty one among SENDER_EMAIL and SENT_REPR_EMAIL,   *)
(* and a block that yields a name N and an email E sets from to 'N <E>'.   *)
C14_Name(data) ==
    FirstText(WalkBlock(data).props, {PROP_SENDER_NAME, PROP_SENT_REPR_NAME})
C14_Email(data) ==
    FirstText(WalkBlock(data).props, {PROP_SENDER_EMAIL, PROP_SENT_REPR_EMAIL})
C14_FirstSenderWins ==
    [][\A p \in Procs :
         (/\ AtAttribute(p, LVL_MESSAGE, ATTR_MAPI_PROPS)
          /\ WalkBlock(RawPayload(p)).stop = "end"
          /\ pos'[p] # pos[p]) =>
             LET data == RawPayload(p)
                 parsed == parseMapiProps(data, ansiEncoding[p])
             IN  /\ C14_Name(data) # << >> => parsed.senderName = C14_Name(data)
                 /\ C14_Name(data) = << >> => ~Truthy(parsed.senderName)
                 /\ C14_Email(data) # << >> => parsed.senderEmail = C14_Email(data)
                 /\ C14_Email(data) = << >> => ~Truthy(parsed.senderEmail)
                 /\ (C14_Name(data) # << >> /\ C14_Email(data) # << >>) =>
                        from'[p] = C14_Name(data) \o <<32, 60>> \o C14_Email(data)
                                       \o <<62>>]_vars

(* C14 witness: after a legacy FROM, a block with SENT_REPR_NAME 'Bob',    *)
(* SENDER_NAME 'Ann', SENT_REPR_EMAIL 'r@s' and SENDER_EMAIL 'a@b' in      *)
(* that order; the from returned is 'Bob <r@s>'.                           *)
C14_Witness ==
    \E p \in Procs :
        /\ pc[p] = "done"
        /\ Len(dispatched[p]) = 2
        /\ IsMsgEntry(dispatched[p][1], ATTR_FROM)
        /\ IsMsgEntry(dispatched[p][2], ATTR_MAPI_PROPS)
        /\ Len(WalkBlock(dispatched[p][2].attrData).props) = 4
        /\ [i \in 1..4 |-> WalkBlock(dispatched[p][2].attrData).props[i].propId]
               = <<PROP_SENT_REPR_NAME, PROP_SENDER_NAME, PROP_SENT_REPR_EMAIL,
                   PROP_SENDER_EMAIL>>
        /\ result[p].from = <<66, 111, 98, 32, 60, 114, 64, 115, 62>>

(* The bytes of the last BINARY property with this id. *)
HasBinary(props, propId) ==
    \E i \in 1..Len(props) :
        props[i].propId = propId /\ props[i].propType = PT_BINARY
LastBinary(props, propId) ==
    LET at == {i \in 1..Len(props) :
                  props[i].propId = propId /\ props[i].propType = PT_BINARY}
    IN  props[MaxOf(at)].bytes

(* C15: when the open accumulator holds a payload and an attachment-level  *)
(* block recovers an ATTACH_DATA_BIN value, the accumulator's payload and  *)
(* size become those of that value, and each name field keeps its value    *)
(* unless the block carries a non-empty name of that kind.                 *)
C15_DataBinReplacesData ==
    [][\A p \in Procs :
         (/\ AtAttribute(p, LVL_ATTACHMENT, ATTACH_MAPI_PROPS)
          /\ currentAttachment[p] # NoAttachment
          /\ currentAttachment[p].data # Null
          /\ WalkBlock(RawPayload(p)).stop = "end"
          /\ HasBinary(WalkBlock(RawPayload(p)).props, PROP_ATTACH_DATA_BIN)
          /\ pos'[p] # pos[p]) =>
             LET props == WalkBlock(RawPayload(p)).props
                 old == currentAttachment[p]
                 new == currentAttachment'[p]
             IN  /\ new.data = LastBinary(props, PROP_ATTACH_DATA_BIN)
                 /\ new.size = Len(LastBinary(props, PROP_ATTACH_DATA_BIN))
                 /\ new.legacyName = old.legacyName
                 /\ new.mapiLongFilename =
                        Applied(old.mapiLongFilename,
                                LastText(props, PROP_ATTACH_LONG_FILENAME))
                 /\ new.mapiFilename =
                        Applied(old.mapiFilename, LastText(props, PROP_ATTACH_FILENAME))
                 /\ new.mapiDisplayName =
                        Applied(old.mapiDisplayName, LastText(props, PROP_DISPLAY_NAME))]_vars

(* C15 witness: REND_DATA, TITLE 'legacy.txt', DATA of 5 bytes, then a     *)
(* block with ATTACH_DATA_BIN <<6, 6>>; the attachment returned has those  *)
(* 2 bytes, size 2 and the name 'legacy.txt'.                              *)
C15_Witness ==
    \E p \in Procs :
        /\ pc[p] = "done"
        /\ [i \in 1..Len(dispatched[p]) |-> dispatched[p][i].attrId]
               = <<ATTACH_REND_DATA, ATTACH_TITLE, ATTACH_DATA, ATTACH_MAPI_PROPS>>
        /\ Len(dispatched[p][3].attrData) = 5
        /\ Len(result[p].attachments) = 1
        /\ result[p].attachments[1].data = <<6, 6>>
        /\ result[p].attachments[1].size = 2
        /\ result[p].attachments[1].name
               = <<108, 101, 103, 97, 99, 121, 46, 116, 120, 116>>

(* C16: for every length n of 0..2^32-1, pad4(n) - n is in 0..3, pad4(n)   *)
(* is a multiple of 4, and pad4(pad4(n)) = pad4(n).  An argument below 0   *)
(* stands for n >= 2^31, which no result of pad4 (a signed 32-bit number)  *)
(* reaches.                                                                *)
C16_Pad4RoundsUp ==
    (call.fn = "pad4" /\ call.st = Returned) =>
        /\ ~IsLarge(call.arg)
        /\ call.out >= call.arg
        /\ call.out >= 0 /\ call.out - 3 <= call.arg
        /\ call.out % 4 = 0
        /\ pad4(call.out) = call.out

(* C18: codepageToEncoding gives the encoding of the table for 932, 936,   *)
(* 949, 950, 1250..1258 and 65001, and 'shift_jis' for every other         *)
(* 32-bit value.                                                           *)
C18_Windows ==
    <<"windows-1250", "windows-1251", "windows-1252", "windows-1253",
      "windows-1254", "windows-1255", "windows-1256", "windows-1257",
      "windows-1258">>
C18_Expected(cp) ==
    IF cp = 936 THEN "gbk"
    ELSE IF cp = 949 THEN "euc-kr"
    ELSE IF cp = 950 THEN "big5"
    ELSE IF cp = 65001 THEN "utf-8"
    ELSE IF cp >= 1250 /\ cp <= 1258 THEN C18_Windows[cp - 1249]
    ELSE "shift_jis"
C18_CodepageTable ==
    (call.fn = "codepageToEncoding" /\ call.st = Returned) =>
        call.out = C18_Expected(call.arg)

(* C18 witness: codepage 0 has been resolved to 'shift_jis'. *)
C18_Witness ==
    /\ call.fn = "codepageToEncoding" /\ call.st = Returned
    /\ call.arg = 0 /\ call.out = "shift_jis"

(* C17: after any sequence of readUint8, readUint16LE, readUint32LE,       *)
(* readBytes and skip calls the cursor is at most the buffer length, a     *)
(* read that needs more bytes than remain throws 'Unexpected end of data'  *)
(* and leaves the cursor where it was, and the bytes readBytes returns are *)
(* bytes of the buffer: those at the cursor when the cursor is not below 0.*)
C17_Reads == {"readUint8", "readUint16LE", "readUint32LE", "readBytes"}
C17_Need(c) ==
    IF c.fn = "readUint8" THEN 1
    ELSE IF c.fn = "readUint16LE" THEN 2
    ELSE IF c.fn = "readUint32LE" THEN 4
    ELSE c.arg
C17_Exceeds(need, rem) == need < 0 \/ need > rem
C17_Step ==
    LET data == buffer[1]
        need == C17_Need(call')
        rem  == Len(data) - pos[1]
    IN  /\ pos'[1] <= Len(data)
        /\ (call'.fn \in C17_Reads /\ C17_Exceeds(need, rem)) =>
              /\ call'.st = Threw
              /\ error'[1] = "Unexpected end of data"
              /\ pos'[1] = pos[1]
        /\ (call'.fn \in C17_Reads /\ call'.st = Returned) =>
              /\ ~C17_Exceeds(need, rem)
              /\ pos'[1] = pos[1] + need
        /\ (call'.fn = "readBytes" /\ call'.st = Returned) =>
              /\ \A i \in 1..Len(call'.out) :
                     \E k \in 1..Len(data) : call'.out[i] = data[k]
              /\ pos[1] >= 0 =>
                     call'.out = [i \in 1..need |-> data[pos[1] + i]]
        /\ (call'.fn = "readUint8" /\ call'.st = Returned /\ pos[1] >= 0) =>
              call'.out = data[pos[1] + 1]
C17_CursorBounds ==
    /\ [](pos[1] <= Len(buffer[1]))
    /\ [][C17_Step]_vars

(* C17 witness: with the cursor advanced to one byte before the end of a   *)
(* buffer of three or more bytes, readBytes(2) threw.                      *)
C17_Witness ==
    /\ Len(buffer[1]) >= 3 /\ pos[1] = Len(buffer[1]) - 1
    /\ call.fn = "readBytes" /\ call.st = Threw
    /\ call.arg = 2 /\ error[1] = ErrEnd

(* C19: every legacy-ANSI decode uses the encoding active at that point:   *)
(* the one resolved from the last OEM_CODEPAGE attribute processed before  *)
(* it, Shift_JIS when there was none.  Stated for the steps that process a *)
(* message-level SUBJECT or BODY attribute.  The decoders are given for    *)
(* single-byte text of Shift_JIS (ASCII and the half-width katakana A1..DF)*)
(* and for windows-1252 and UTF-8; text of the other encodings is taken to *)
(* be ASCII.                                                               *)
C19_IsCodepage(e) ==
    /\ e.level = LVL_MESSAGE /\ e.attrId = ATTR_OEM_CODEPAGE
    /\ Len(e.attrData) >= 4
C19_Active(log) ==
    LET at == {i \in 1..Len(log) : C19_IsCodepage(log[i])}
    IN  IF at = {} THEN "shift_jis"
        ELSE C18_Expected(GetUint32(log[MaxOf(at)].attrData, 0))
C19_HalfWidth(b) == IF b >= 161 /\ b <= 223 THEN 65377 + (b - 161) ELSE b
C19_DecodeWith(encoding, bytes) ==
    LET text == SubSeq(bytes, 1, IndexOfNul(bytes))
    IN  IF encoding = "utf-8" THEN DecodeUtf8(text)
        ELSE IF encoding = "windows-1252" THEN DecodeWindows1252(text)
        ELSE [i \in 1..Len(text) |-> C19_HalfWidth(text[i])]
C19_ActiveEncodingDecodes ==
    [][\A p \in Procs :
          /\ AtAttribute(p, LVL_MESSAGE, ATTR_SUBJECT) =>
                subject'[p] =
                    C19_DecodeWith(C19_Active(dispatched[p]), RawPayload(p))
          /\ AtAttribute(p, LVL_MESSAGE, ATTR_BODY) =>
                body'[p] =
                    C19_DecodeWith(C19_Active(dispatched[p]), RawPayload(p))]_vars

(* C20: the active ANSI encoding is Shift_JIS until the first attribute    *)
(* has been processed, and a step changes it only when the cursor stands   *)
(* before a message-level OEM_CODEPAGE attribute with a payload of 4 bytes *)
(* or more, and then to the encoding of that codepage; every other step    *)
(* leaves it as it was.                                                    *)
C20_OnlyCodepageChangesEncoding ==
    /\ [](\A p \in Procs : dispatched[p] = << >> => ansiEncoding[p] = "shift_jis")
    /\ [][\A p \in Procs :
             IF /\ AtAttribute(p, LVL_MESSAGE, ATTR_OEM_CODEPAGE)
                /\ RawLength(p) >= 4
             THEN ansiEncoding'[p] = C18_Expected(GetUint32(RawPayload(p), 0))
             ELSE ansiEncoding'[p] = ansiEncoding[p]]_vars

(* C20 witness: OEM_CODEPAGE 1252 was processed, then an OEM_CODEPAGE with *)
(* a 2-byte payload and a SUBJECT, and the encoding is still windows-1252. *)
C20_Witness ==
    \E p \in Procs :
        /\ Len(dispatched[p]) = 3
        /\ \A i \in 1..2 : dispatched[p][i].attrId = ATTR_OEM_CODEPAGE
        /\ Len(dispatched[p][1].attrData) = 4
        /\ Len(dispatched[p][2].attrData) = 2
        /\ dispatched[p][3].attrId = ATTR_SUBJECT
        /\ ansiEncoding[p] = "windows-1252"

(* The properties of a block that yield a value, in block order, up to the *)
(* declared count, the end of the block or the first property that yields  *)
(* none; stop says why the scan ended: "end", "header" (a cut              *)
(* named-property header), "count" (a value count other than 1), "multi"   *)
(* (a multi-value type), "unknown" (a type without case) or "overrun" (a   *)
(* value past the block).  A fixed-width value is kept with its bytes;     *)
(* from is where each property starts and next where the one after it is   *)
(* looked for.                                                             *)
RECURSIVE ScanProps(_, _, _, _)
ScanProps(data, at, left, seen) ==
    IF left = 0 \/ Len(data) - at <= 4
    THEN [props |-> seen, stop |-> "end", at |-> at]
    ELSE
      LET propType == GetUint16(data, at)
          propId == GetUint16(data, at + 2)
          header == IF propId >= NAMED_PROP_MIN
                    THEN NamedHeaderLength(data, at + 4) ELSE 0
          v == at + 4 + header
          width == IF propType = PT_SHORT THEN 2
                   ELSE IF propType \in {PT_LONG, PT_BOOLEAN} THEN 4 ELSE 0
          room == IF propType = PT_SYSTIME THEN 8 ELSE 4
          Fixed(bytes, after) ==
              ScanProps(data, IF after > Len(data) THEN Len(data) ELSE after,
                        left - 1,
                        Append(seen, [propType |-> propType, propId |-> propId,
                                      bytes |-> bytes, from |-> at,
                                      next |-> IF after > Len(data) THEN Len(data)
                                               ELSE after]))
      IN  IF header < 0 THEN [props |-> seen, stop |-> "header", at |-> at]
          ELSE IF propType \in {PT_SHORT, PT_LONG, PT_BOOLEAN}
               THEN IF v + width > Len(data)
                    THEN [props |-> seen, stop |-> "overrun", at |-> at]
                    ELSE Fixed(SubSeq(data, v + 1, v + width), v + room)
          ELSE IF propType = PT_SYSTIME THEN Fixed(<< >>, v + room)
          ELSE IF propType \in {PT_MV_STRING8, PT_MV_UNICODE, PT_MV_BINARY}
               THEN [props |-> seen, stop |-> "multi", at |-> at]
          ELSE IF propType \notin {PT_STRING8, PT_UNICODE, PT_BINARY}
               THEN [props |-> seen, stop |-> "unknown", at |-> at]
          ELSE IF v + 4 > Len(data)
               THEN [props |-> seen, stop |-> "overrun", at |-> at]
          ELSE IF GetUint32(data, v) # 1
               THEN [props |-> seen, stop |-> "count", at |-> at]
          ELSE IF v + 8 > Len(data)
                  \/ Above(GetUint32(data, v + 4), Len(data) - (v + 8))
               THEN [props |-> seen, stop |-> "overrun", at |-> at]
          ELSE Fixed(SubSeq(data, v + 9, v + 8 + GetUint32(data, v + 4)),
                     v + 8 + RoundUp4(GetUint32(data, v + 4)))

ScanBlock(data) ==
    IF Len(data) < 4 THEN [props |-> << >>, stop |-> "short", at |-> 0]
    ELSE ScanProps(data, 4, GetUint32(data, 0), << >>)

(* C21: a returned parse has the empty string in every text field that no  *)
(* attribute supplied: subject without a SUBJECT attribute and without a   *)
(* block holding a subject property, and likewise from, body and bodyHtml; *)
(* the buffer of signature and key alone returns four empty strings and no *)
(* attachment.                                                             *)
C21_HasAttr(log, attrId) == \E i \in 1..Len(log) : IsMsgEntry(log[i], attrId)
C21_HasProp(log, ids) ==
    \E i \in 1..Len(log) :
        /\ IsMsgEntry(log[i], ATTR_MAPI_PROPS)
        /\ \E k \in 1..Len(ScanBlock(log[i].attrData).props) :
               ScanBlock(log[i].attrData).props[k].propId \in ids
C21_MissingFieldsAreEmpty ==
    \A p \in Procs :
        pc[p] = "done" =>
            LET log == dispatched[p] IN
            /\ (~C21_HasAttr(log, ATTR_SUBJECT) /\ ~C21_HasProp(log, {PROP_SUBJECT}))
                   => result[p].subject = << >>
            /\ (/\ ~C21_HasAttr(log, ATTR_FROM)
                /\ ~C21_HasProp(log, {PROP_SENDER_NAME, PROP_SENT_REPR_NAME,
                                      PROP_SENDER_EMAIL, PROP_SENT_REPR_EMAIL}))
                   => result[p].from = << >>
            /\ (~C21_HasAttr(log, ATTR_BODY) /\ ~C21_HasProp(log, {PROP_BODY}))
                   => result[p].body = << >>
            /\ ~C21_HasProp(log, {PROP_BODY_HTML}) => result[p].bodyHtml = << >>
            /\ Len(buffer[p]) = 6 =>
                   result[p] = [subject |-> << >>, from |-> << >>, body |-> << >>,
                                bodyHtml |-> << >>, attachments |-> << >>]

(* C21 witness: the buffer of signature and key alone has returned. *)
C21_Witness ==
    \E p \in Procs :
        /\ pc[p] = "done"
        /\ buffer[p] = <<120, 159, 62, 34, 1, 0>>
        /\ result[p].subject = << >> /\ result[p].attachments = << >>

(* The result of one invocation run on its own from start to end: the      *)
(* attributes of the buffer taken in order, each applied to the locals.    *)
C22_Locals ==
    [enc |-> "shift_jis", subject |-> << >>, from |-> << >>, body |-> << >>,
     bodyHtml |-> << >>, atts |-> << >>, cur |-> NoAttachment]
C22_Message(st, a) ==
    IF a.attrId = ATTR_OEM_CODEPAGE /\ Len(a.attrData) >= 4
    THEN [st EXCEPT !.enc = codepageToEncoding(GetUint32(a.attrData, 0))]
    ELSE IF a.attrId = ATTR_SUBJECT
    THEN [st EXCEPT !.subject = decodeAnsiString(a.attrData, st.enc)]
    ELSE IF a.attrId = ATTR_FROM /\ Len(a.attrData) >= 8
    THEN [st EXCEPT !.from =
             decodeAnsiString(SubSeq(a.attrData, 9, Len(a.attrData)), st.enc)]
    ELSE IF a.attrId = ATTR_BODY
    THEN [st EXCEPT !.body = decodeAnsiString(a.attrData, st.enc)]
    ELSE IF a.attrId = ATTR_MAPI_PROPS
    THEN LET parsed == parseMapiProps(a.attrData, st.enc)
         IN  [st EXCEPT !.subject = ApplySubject(@, parsed),
                        !.from = ApplySender(@, parsed),
                        !.body = ApplyBody(@, parsed),
                        !.bodyHtml = ApplyBodyHtml(@, parsed)]
    ELSE st
C22_Attachment(st, a) ==
    IF a.attrId = ATTACH_REND_DATA
    THEN [st EXCEPT !.atts = PushCurrent(@, st.cur), !.cur = NewAttachment]
    ELSE IF st.cur = NoAttachment THEN st
    ELSE IF a.attrId = ATTACH_TITLE
    THEN [st EXCEPT !.cur.legacyName = decodeAnsiString(a.attrData, st.enc)]
    ELSE IF a.attrId = ATTACH_DATA
    THEN [st EXCEPT !.cur.data = a.attrData, !.cur.size = Len(a.attrData)]
    ELSE IF a.attrId = ATTACH_MAPI_PROPS
    THEN [st EXCEPT !.cur =
             ApplyAttachProps(@, parseAttachMapiProps(a.attrData, st.enc))]
    ELSE st
RECURSIVE C22_Run(_, _, _)
C22_Run(data, at, st) ==
    IF remaining(data, at) < 9 \/ LengthExceeds(data, at) THEN st
    ELSE LET a == AttributeAt(data, at)
         IN  C22_Run(data, a.pos,
                     IF a.level = LVL_MESSAGE THEN C22_Message(st, a)
                     ELSE IF a.level = LVL_ATTACHMENT THEN C22_Attachment(st, a)
                     ELSE st)
C22_Alone(data) ==
    IF Len(data) < 6 \/ SubSeq(data, 1, 4) # <<120, 159, 62, 34>>
    THEN NoResult
    ELSE LET st == C22_Run(data, 6, C22_Locals)
         IN  [subject |-> st.subject, from |-> st.from, body |-> st.body,
              bodyHtml |-> st.bodyHtml,
              attachments |-> finalAttachments(Flushed(st.atts, st.cur))]

(* The locals of invocation q. *)
C22_Own(q) ==
    <<buffer[q], pc[q], pos[q], ansiEncoding[q], subject[q], from[q], body[q],
      bodyHtml[q], attachments[q], currentAttachment[q], result[q], error[q]>>

(* C22: with the steps of two invocations interleaved in any order, every  *)
(* step changes the locals of one invocation only, an invocation that      *)
(* returns returns what it returns when run alone, and one that throws     *)
(* throws alone too.                                                       *)
C22_Independent ==
    /\ [](\A p \in Procs :
            /\ pc[p] = "done" => result[p] = C22_Alone(buffer[p])
            /\ pc[p] = "error" => C22_Alone(buffer[p]) = NoResult)
    /\ [][\E p \in Procs : \A q \in Procs \ {p} : C22_Own(q)' = C22_Own(q)]_vars

(* C22 witness: both invocations have returned; the first buffer held an   *)
(* OEM_CODEPAGE attribute and its encoding is windows-1252, the second     *)
(* held none and its encoding is still shift_jis.                          *)
C22_Witness ==
    /\ pc[1] = "done" /\ pc[2] = "done"
    /\ \E i \in 1..Len(dispatched[1]) :
           IsMsgEntry(dispatched[1][i], ATTR_OEM_CODEPAGE)
    /\ dispatched[2] # << >>
    /\ ansiEncoding[1] = "windows-1252" /\ ansiEncoding[2] = "shift_jis"
    /\ result[1] # result[2]

(* The iterations of the property loop of a message-level block. *)
RECURSIVE C23_Iterations(_, _, _, _, _)
C23_Iterations(data, at, i, count, encoding) ==
    IF ~(Below(i, count) /\ RemainingOver(data, at, 4)) THEN i
    ELSE LET prop == ReadProperty(data, at, encoding) IN
         IF ~prop.ok \/ prop.value.t = "null" THEN i + 1
         ELSE C23_Iterations(data, prop.value.pos, i + 1, count, encoding)

C24_Markers(log) == Cardinality({i \in 1..Len(log) : IsAttEntry(log[i], ATTACH_REND_DATA)})
C24_Open(p) == IF currentAttachment[p] # NoAttachment THEN 1 ELSE 0

(* C24: while the attributes are read, the flushed accumulators plus the   *)
(* open one are as many as the REND_DATA attributes read so far; an        *)
(* accumulator is opened only by the step that reads a REND_DATA, and once *)
(* one is open one stays open to the end of the stream; at the return the  *)
(* list the final attachments are built from holds as many accumulators as *)
(* REND_DATA attributes were read.                                         *)
C24_AccumulatorMachine ==
    /\ [](\A p \in Procs :
            /\ pc[p] \in {"loop", "flush"} =>
                   Len(attachments[p]) + C24_Open(p) = C24_Markers(dispatched[p])
            /\ pc[p] = "done" =>
                   Len(attachments[p]) = C24_Markers(dispatched[p]))
    /\ [][\A p \in Procs :
            /\ (C24_Open(p) = 0 /\ C24_Open(p)' = 1) =>
                   AtAttribute(p, LVL_ATTACHMENT, ATTACH_REND_DATA)
            /\ C24_Open(p) = 1 => C24_Open(p)' = 1]_vars

(* C24 witness: a parse returned after REND_DATA, DATA, REND_DATA: one     *)
(* accumulator was flushed by the second REND_DATA, the other at the end.  *)
C24_Witness ==
    \E p \in Procs :
        /\ pc[p] = "done"
        /\ Len(dispatched[p]) = 3
        /\ IsAttEntry(dispatched[p][1], ATTACH_REND_DATA)
        /\ IsAttEntry(dispatched[p][2], ATTACH_DATA)
        /\ IsAttEntry(dispatched[p][3], ATTACH_REND_DATA)
        /\ Len(attachments[p]) = 2
        /\ Len(result[p].attachments) = 1

(* What the scanned properties make of the fields of the message. *)
LastHtml(props) ==
    LET at == {i \in 1..Len(props) :
                  /\ props[i].propId = PROP_BODY_HTML
                  /\ props[i].propType \in {PT_STRING8, PT_UNICODE, PT_BINARY}}
    IN  IF at = {} THEN << >>
        ELSE IF props[MaxOf(at)].propType = PT_BINARY
             THEN DecodeUtf8(props[MaxOf(at)].bytes)
        ELSE TextOf(props[MaxOf(at)])
SenderOf(old, props) ==
    LET name == FirstText(props, {PROP_SENDER_NAME, PROP_SENT_REPR_NAME})
        email == FirstText(props, {PROP_SENDER_EMAIL, PROP_SENT_REPR_EMAIL})
        named == Applied(old, name)
    IN  IF email = << >> THEN named
        ELSE IF named = << >> THEN email
        ELSE named \o <<32, 60>> \o email \o <<62>>

(* C25: when a property of a block yields no value (a value count other    *)
(* than 1, a multi-value type, a type without case, a value or a           *)
(* named-property header that runs past the block), the block sets exactly *)
(* the fields that the properties before it set: nothing located after it  *)
(* is applied and nothing found before it is lost.                         *)
C25_Stops == {"count", "multi", "unknown", "overrun", "header"}
C25_BlockStopsAtFirstNull ==
    /\ [][\A p \in Procs :
            (/\ AtAttribute(p, LVL_MESSAGE, ATTR_MAPI_PROPS)
             /\ ScanBlock(RawPayload(p)).stop \in C25_Stops
             /\ pos'[p] # pos[p]) =>
                LET props == ScanBlock(RawPayload(p)).props IN
                /\ subject'[p] = Applied(subject[p], LastText(props, PROP_SUBJECT))
                /\ body'[p] = Applied(body[p], LastText(props, PROP_BODY))
                /\ bodyHtml'[p] = Applied(bodyHtml[p], LastHtml(props))
                /\ from'[p] = SenderOf(from[p], props)]_vars
    /\ [][\A p \in Procs :
            (/\ AtAttribute(p, LVL_ATTACHMENT, ATTACH_MAPI_PROPS)
             /\ ScanBlock(RawPayload(p)).stop \in C25_Stops
             /\ currentAttachment[p] # NoAttachment
             /\ pos'[p] # pos[p]) =>
                LET props == ScanBlock(RawPayload(p)).props
                    old == currentAttachment[p]
                    new == currentAttachment'[p]
                IN  /\ new.mapiLongFilename =
                           Applied(old.mapiLongFilename,
                                   LastText(props, PROP_ATTACH_LONG_FILENAME))
                    /\ new.mapiFilename =
                           Applied(old.mapiFilename,
                                   LastText(props, PROP_ATTACH_FILENAME))
                    /\ new.mapiDisplayName =
                           Applied(old.mapiDisplayName,
                                   LastText(props, PROP_DISPLAY_NAME))
                    /\ new.extension =
                           Applied(old.extension,
                                   LastText(props, PROP_ATTACH_EXTENSION))
                    /\ new.data = IF HasBinary(props, PROP_ATTACH_DATA_BIN)
                                  THEN LastBinary(props, PROP_ATTACH_DATA_BIN)
                                  ELSE old.data]_vars

(* C25 witness: after a legacy SUBJECT 'Hi', a block with BODY 'Body', a   *)
(* multi-value property and SUBJECT 'Hello' has been returned with body    *)
(* 'Body' and subject 'Hi'.                                                *)
C25_Witness ==
    \E p \in Procs :
        /\ pc[p] = "done"
        /\ Len(dispatched[p]) = 2
        /\ IsMsgEntry(dispatched[p][2], ATTR_MAPI_PROPS)
        /\ ScanBlock(dispatched[p][2].attrData).stop = "multi"
        /\ Len(ScanBlock(dispatched[p][2].attrData).props) = 1
        /\ GetUint32(dispatched[p][2].attrData, 0) = 3
        /\ result[p].body = <<66, 111, 100, 121>>
        /\ result[p].subject = <<72, 105>>

(* C26: no skip of a parse moves the cursor backward, below 0 or past the  *)
(* end of its buffer.  Stated for the first skip of the value-skipping     *)
(* loop, skip(pad4(len)) with len the 32-bit length of the first value:    *)
(* whenever the parse stands before a MAPI block whose first property is   *)
(* of a counted type, is not named and has a value count that enters the   *)
(* loop, that skip leaves the cursor of the block between where it was     *)
(* (offset 16) and the end of the block.                                   *)
C26_Counted == {PT_STRING8, PT_UNICODE, PT_BINARY}
C26_Multi == {PT_MV_STRING8, PT_MV_UNICODE, PT_MV_BINARY}
C26_EntersSkipLoop(data) ==
    /\ Len(data) >= 16
    /\ GetUint32(data, 0) # 0
    /\ GetUint16(data, 6) < NAMED_PROP_MIN
    /\ \/ GetUint16(data, 4) \in C26_Counted /\ GetUint32(data, 8) \notin {0, 1}
       \/ GetUint16(data, 4) \in C26_Multi /\ GetUint32(data, 8) # 0
C26_AfterFirstSkip(data) ==
    LET len == readUint32LE(data, 12) IN skip(data, len.pos, pad4(len.val))
C26_SkipOnlyAdvances ==
    \A p \in Procs :
        (/\ \/ AtAttribute(p, LVL_MESSAGE, ATTR_MAPI_PROPS)
            \/ AtAttribute(p, LVL_ATTACHMENT, ATTACH_MAPI_PROPS)
         /\ C26_EntersSkipLoop(RawPayload(p))) =>
            /\ C26_AfterFirstSkip(RawPayload(p)) >= 16
            /\ C26_AfterFirstSkip(RawPayload(p)) <= Len(RawPayload(p))

(* The buffer with the two bytes after every whole attribute set to 0. *)
RECURSIVE C27_ChecksumBytes(_, _)
C27_ChecksumBytes(data, at) ==
    IF Len(data) - at < 9 THEN {}
    ELSE LET length == GetUint32(data, at + 5)
             after == at + 9 + length
         IN  IF Above(length, Len(data) - (at + 9)) \/ Len(data) - after < 2
             THEN {}
             ELSE {after + 1, after + 2} \cup C27_ChecksumBytes(data, after + 2)
C27_Blank(data) ==
    LET sums == C27_ChecksumBytes(data, 6)
    IN  [i \in 1..Len(data) |-> IF i \in sums THEN 0 ELSE data[i]]

(* C27: an attribute whose payload is whole is dispatched with that        *)
(* payload whatever follows it; the cursor then stands 2 bytes after the   *)
(* payload when 2 or more bytes follow it and at its end otherwise; and a  *)
(* parse returns (or throws) what it does on the same buffer with every    *)
(* checksum set to 0.                                                      *)
C27_ChecksumOptionalUnchecked ==
    /\ [][\A p \in Procs :
            (/\ pc[p] = "loop"
             /\ Len(buffer[p]) - pos[p] >= 9
             /\ ~Above(RawLength(p), Len(buffer[p]) - (pos[p] + 9))
             /\ C22_Own(p)' # C22_Own(p)) =>
                LET after == pos[p] + 9 + RawLength(p) IN
                /\ Len(dispatched'[p]) = Len(dispatched[p]) + 1
                /\ dispatched'[p][Len(dispatched'[p])].level
                       = buffer[p][pos[p] + 1]
                /\ dispatched'[p][Len(dispatched'[p])].attrId
                       = GetUint16(buffer[p], pos[p] + 1)
                /\ dispatched'[p][Len(dispatched'[p])].attrData = RawPayload(p)
                /\ pos'[p] = IF Len(buffer[p]) - after >= 2 THEN after + 2
                             ELSE after]_vars
    /\ [](\A p \in Procs :
            /\ pc[p] = "done" => result[p] = C22_Alone(C27_Blank(buffer[p]))
            /\ pc[p] = "error" => C22_Alone(C27_Blank(buffer[p])) = NoResult)

(* C27 witness: a parse has returned subject 'Hi' and body 'notes' from a  *)
(* SUBJECT followed by FF FF, which is not the sum of its payload, and a   *)
(* BODY followed by one byte, which was not consumed.                      *)
C27_Witness ==
    \E p \in Procs :
        /\ pc[p] = "done"
        /\ Len(dispatched[p]) = 2
        /\ IsMsgEntry(dispatched[p][1], ATTR_SUBJECT)
        /\ IsMsgEntry(dispatched[p][2], ATTR_BODY)
        /\ SubSeq(buffer[p], 19, 20) = <<255, 255>>
        /\ SumBytes(dispatched[p][1].attrData) # 65535
        /\ pos[p] = Len(buffer[p]) - 1
        /\ result[p].subject = StrHi /\ result[p].body = StrNotes

(* C28: a sender email from a message-level MAPI block replaces the sender *)
(* of the legacy FROM attribute: when from is not empty and a block gives  *)
(* a sender email but no sender name, from is that email after the block.  *)
C28_Names == {PROP_SENDER_NAME, PROP_SENT_REPR_NAME}
C28_Emails == {PROP_SENDER_EMAIL, PROP_SENT_REPR_EMAIL}
C28_EmailOverwritesLegacy ==
    [][\A p \in Procs :
          (/\ AtAttribute(p, LVL_MESSAGE, ATTR_MAPI_PROPS)
           /\ from[p] # << >>
           /\ FirstText(WalkBlock(RawPayload(p)).props, C28_Names) = << >>
           /\ FirstText(WalkBlock(RawPayload(p)).props, C28_Emails) # << >>
           /\ pos'[p] # pos[p]) =>
              from'[p] = FirstText(WalkBlock(RawPayload(p)).props, C28_Emails)]_vars

(* C29: the bytes a value takes in a block: 4 for SHORT (2 and 2 of        *)
(* padding), 4 for LONG and BOOLEAN, 8 for SYSTIME, 4 + 4 + len rounded up *)
(* to a multiple of 4 for a single-valued STRING8, UNICODE or BINARY of    *)
(* len bytes.  Every property of a block whose value is whole is decoded   *)
(* to end exactly that many bytes after its 4-byte tag, and a block made   *)
(* of such properties only sets every field to the exact value of its      *)
(* property.                                                               *)
C29_Width(prop) ==
    IF prop.propType \in {PT_SHORT, PT_LONG, PT_BOOLEAN} THEN 4
    ELSE IF prop.propType = PT_SYSTIME THEN 8
    ELSE 4 + 4 + RoundUp4(Len(prop.bytes))
C29_WidthsAt(data, encoding) ==
    \A i \in 1..Len(ScanBlock(data).props) :
        LET prop == ScanBlock(data).props[i]
            end == prop.from + 4 + C29_Width(prop)
        IN  (prop.propId < NAMED_PROP_MIN /\ end <= Len(data)) =>
                /\ ReadProperty(data, prop.from, encoding).ok
                /\ ReadProperty(data, prop.from, encoding).value.t # "null"
                /\ ReadProperty(data, prop.from, encoding).value.pos = end
                /\ prop.next = end
C29_ValueWidths ==
    /\ [][\A p \in Procs :
            (/\ AtAttribute(p, LVL_MESSAGE, ATTR_MAPI_PROPS)
             /\ pos'[p] # pos[p]) =>
                LET props == ScanBlock(RawPayload(p)).props IN
                /\ C29_WidthsAt(RawPayload(p), ansiEncoding[p])
                /\ ScanBlock(RawPayload(p)).stop = "end" =>
                      /\ subject'[p] =
                             Applied(subject[p], LastText(props, PROP_SUBJECT))
                      /\ body'[p] = Applied(body[p], LastText(props, PROP_BODY))
                      /\ bodyHtml'[p] = Applied(bodyHtml[p], LastHtml(props))
                      /\ from'[p] = SenderOf(from[p], props)]_vars
    /\ [][\A p \in Procs :
            (/\ AtAttribute(p, LVL_ATTACHMENT, ATTACH_MAPI_PROPS)
             /\ currentAttachment[p] # NoAttachment
             /\ pos'[p] # pos[p]) =>
                LET props == ScanBlock(RawPayload(p)).props IN
                /\ C29_WidthsAt(RawPayload(p), ansiEncoding[p])
                /\ ScanBlock(RawPayload(p)).stop = "end" =>
                      /\ currentAttachment'[p].mapiLongFilename =
                             Applied(currentAttachment[p].mapiLongFilename,
                                     LastText(props, PROP_ATTACH_LONG_FILENAME))
                      /\ currentAttachment'[p].mapiFilename =
                             Applied(currentAttachment[p].mapiFilename,
                                     LastText(props, PROP_ATTACH_FILENAME))]_vars

(* C29 witness: a block of a SHORT, a STRING8 BODY 'Body' (5 bytes and 3   *)
(* of padding) and a UNICODE SUBJECT 'Hello' has been returned with body   *)
(* 'Body' and subject 'Hello'.                                             *)
C29_Witness ==
    \E p \in Procs :
        /\ pc[p] = "done"
        /\ Len(dispatched[p]) = 2
        /\ IsMsgEntry(dispatched[p][2], ATTR_MAPI_PROPS)
        /\ LET sc == ScanBlock(dispatched[p][2].attrData) IN
           /\ sc.stop = "end" /\ Len(sc.props) = 3
           /\ sc.props[1].propType = PT_SHORT /\ sc.props[1].next = 12
           /\ sc.props[2].propType = PT_STRING8 /\ sc.props[2].next = 32
           /\ sc.props[3].propId = PROP_SUBJECT
        /\ result[p].body = StrBody
        /\ result[p].subject = StrHello

(* The properties present in a block whatever count it declares, and the   *)
(* first n of a sequence.                                                  *)
C30_Present(data) ==
    IF Len(data) < 4 THEN << >> ELSE ScanProps(data, 4, -1, << >>).props
C30_Declared(data) == GetUint32(data, 0)
C30_First(props, n) ==
    IF IsLarge(n) \/ n >= Len(props) THEN props ELSE SubSeq(props, 1, n)

(* C30: a block sets its fields from the first count properties present in *)
(* it, count being the number it declares, and from all of them when it    *)
(* declares more than are present; what is left when fewer than 5 bytes    *)
(* remain is not decoded; and no count raises an error: the parse goes on  *)
(* with the next attribute.                                                *)
C30_DeclaredCountBounds ==
    /\ [][\A p \in Procs :
            (/\ AtAttribute(p, LVL_MESSAGE, ATTR_MAPI_PROPS)
             /\ Len(RawPayload(p)) >= 4
             /\ pos'[p] # pos[p]) =>
                LET props == C30_First(C30_Present(RawPayload(p)),
                                       C30_Declared(RawPayload(p)))
                IN  /\ pc'[p] = "loop" /\ error'[p] = error[p]
                    /\ subject'[p] =
                           Applied(subject[p], LastText(props, PROP_SUBJECT))
                    /\ body'[p] = Applied(body[p], LastText(props, PROP_BODY))
                    /\ bodyHtml'[p] = Applied(bodyHtml[p], LastHtml(props))
                    /\ from'[p] = SenderOf(from[p], props)]_vars
    /\ [][\A p \in Procs :
            (/\ AtAttribute(p, LVL_ATTACHMENT, ATTACH_MAPI_PROPS)
             /\ Len(RawPayload(p)) >= 4
             /\ currentAttachment[p] # NoAttachment
             /\ pos'[p] # pos[p]) =>
                LET props == C30_First(C30_Present(RawPayload(p)),
                                       C30_Declared(RawPayload(p)))
                IN  /\ pc'[p] = "loop" /\ error'[p] = error[p]
                    /\ currentAttachment'[p].mapiLongFilename =
                           Applied(currentAttachment[p].mapiLongFilename,
                                   LastText(props, PROP_ATTACH_LONG_FILENAME))
                    /\ currentAttachment'[p].mapiFilename =
                           Applied(currentAttachment[p].mapiFilename,
                                   LastText(props, PROP_ATTACH_FILENAME))]_vars

(* C30 witness: after a legacy SUBJECT 'Hi', a block that declares five    *)
(* properties and holds a SUBJECT 'Hello', a BODY 'Body' and a 4-byte tail *)
(* has been returned with subject 'Hello' and body 'Body'.                 *)
C30_Witness ==
    \E p \in Procs :
        /\ pc[p] = "done"
        /\ Len(dispatched[p]) = 2
        /\ IsMsgEntry(dispatched[p][2], ATTR_MAPI_PROPS)
        /\ Len(C30_Present(dispatched[p][2].attrData)) = 2
        /\ result[p].subject = StrHello
        /\ C30_Declared(dispatched[p][2].attrData) = 5
        /\ Len(dispatched[p][2].attrData) = 4 + 24 + 16 + 4
        /\ result[p].body = StrBody

(* The bytes before the first NUL byte. *)
RECURSIVE C31_UntilNul(_)
C31_UntilNul(bytes) ==
    IF bytes = << >> \/ Head(bytes) = 0 THEN << >>
    ELSE <<Head(bytes)>> \o C31_UntilNul(Tail(bytes))

(* C31: a message-level FROM attribute of 8 bytes or more sets from to the *)
(* text of the bytes after the first 8, up to the first NUL byte; one of   *)
(* fewer than 8 bytes leaves from as it was and raises nothing.  Stated    *)
(* for text of bytes below 128, which every ANSI encoding decodes alike.   *)
C31_FromSkipsHeader ==
    [][\A p \in Procs :
          (AtAttribute(p, LVL_MESSAGE, ATTR_FROM) /\ pos'[p] # pos[p]) =>
              LET text == C31_UntilNul(SubSeq(RawPayload(p), 9, Len(RawPayload(p))))
              IN  /\ pc'[p] = "loop" /\ error'[p] = error[p]
                  /\ Len(RawPayload(p)) < 8 => from'[p] = from[p]
                  /\ (/\ Len(RawPayload(p)) >= 8
                      /\ \A i \in 1..Len(text) : text[i] < 128) =>
                         from'[p] = text]_vars

(* C31 witness: a FROM attribute of 8 zero bytes, 'Ann' and NUL and then   *)
(* one of 3 bytes have been processed; the parse returned from = 'Ann'.    *)
C31_Witness ==
    \E p \in Procs :
        /\ pc[p] = "done"
        /\ Len(dispatched[p]) = 2
        /\ IsMsgEntry(dispatched[p][1], ATTR_FROM)
        /\ IsMsgEntry(dispatched[p][2], ATTR_FROM)
        /\ Len(dispatched[p][1].attrData) = 12
        /\ Len(dispatched[p][2].attrData) = 3
        /\ result[p].from = StrAnn

(* The places of the high 16 bits of the type/id words of a buffer, and    *)
(* two buffers that are equal everywhere else.                             *)
RECURSIVE C32_HighBytes(_, _)
C32_HighBytes(data, at) ==
    IF Len(data) - at < 9 THEN {}
    ELSE LET length == GetUint32(data, at + 5)
             after == at + 9 + length
         IN  {at + 4, at + 5} \cup
             (IF Above(length, Len(data) - (at + 9)) THEN {}
              ELSE C32_HighBytes(data, IF Len(data) - after >= 2 THEN after + 2
                                       ELSE after))
C32_DifferInHighBitsOnly(a, b) ==
    /\ Len(a) = Len(b)
    /\ C32_HighBytes(a, 6) = C32_HighBytes(b, 6)
    /\ \A i \in 1..Len(a) : i \notin C32_HighBytes(a, 6) => a[i] = b[i]

(* C32: two invocations on buffers that differ only in the high 16 bits of *)
(* type/id words dispatch the same (level, id) pairs and end alike: both   *)
(* throw or both return, with equal results.                               *)
C32_HighBitsUnused ==
    (/\ C32_DifferInHighBitsOnly(buffer[1], buffer[2])
     /\ pc[1] \in {"done", "error"} /\ pc[2] \in {"done", "error"}) =>
        /\ pc[1] = pc[2]
        /\ result[1] = result[2]
        /\ Len(dispatched[1]) = Len(dispatched[2])
        /\ \A i \in 1..Len(dispatched[1]) :
               /\ dispatched[1][i].level = dispatched[2][i].level
               /\ dispatched[1][i].attrId = dispatched[2][i].attrId

(* C32 witness: both invocations have returned subject 'Hi' and one        *)
(* attachment from buffers that differ in the high bits of every type/id   *)
(* word.                                                                   *)
C32_Witness ==
    /\ pc[1] = "done" /\ pc[2] = "done"
    /\ buffer[1] # buffer[2]
    /\ C32_DifferInHighBitsOnly(buffer[1], buffer[2])
    /\ \A i \in C32_HighBytes(buffer[1], 6) : buffer[1][i] # buffer[2][i]
    /\ result[1].subject = StrHi
    /\ Len(result[1].attachments) = 1
    /\ result[1] = result[2]

(* C33: while no REND_DATA attribute has been processed no accumulator is  *)
(* open, and an attachment-level TITLE, DATA or MAPI_PROPS attribute read  *)
(* then changes nothing but the cursor: no accumulator is opened, the      *)
(* attachment list, the message fields and the encoding stay as they are.  *)
(* A parse that read no REND_DATA returns no attachment.                   *)
C33_Ignored == {ATTACH_TITLE, ATTACH_DATA, ATTACH_MAPI_PROPS}
C33_NoRendData(log) ==
    \A i \in 1..Len(log) : ~IsAttEntry(log[i], ATTACH_REND_DATA)
C33_IdleIgnores ==
    /\ [](\A p \in Procs :
            /\ (pc[p] \in {"loop", "flush"} /\ C33_NoRendData(dispatched[p])) =>
                   currentAttachment[p] = NoAttachment /\ attachments[p] = << >>
            /\ (pc[p] = "done" /\ C33_NoRendData(dispatched[p])) =>
                   result[p].attachments = << >>)
    /\ [][\A p \in Procs :
            (/\ \E id \in C33_Ignored : AtAttribute(p, LVL_ATTACHMENT, id)
             /\ currentAttachment[p] = NoAttachment
             /\ pos'[p] # pos[p]) =>
                /\ currentAttachment'[p] = NoAttachment
                /\ attachments'[p] = attachments[p]
                /\ subject'[p] = subject[p] /\ from'[p] = from[p]
                /\ body'[p] = body[p] /\ bodyHtml'[p] = bodyHtml[p]
                /\ ansiEncoding'[p] = ansiEncoding[p]
                /\ pc'[p] = "loop"]_vars

(* C33 witness: a parse of a SUBJECT, a DATA of 3 bytes and a block with a *)
(* long filename and a binary payload, with no REND_DATA, has returned     *)
(* subject 'Hi' and no attachment.                                         *)
C33_Witness ==
    \E p \in Procs :
        /\ pc[p] = "done"
        /\ Len(dispatched[p]) = 3
        /\ IsAttEntry(dispatched[p][2], ATTACH_DATA)
        /\ Len(dispatched[p][2].attrData) = 3
        /\ IsAttEntry(dispatched[p][3], ATTACH_MAPI_PROPS)
        /\ HasBinary(ScanBlock(dispatched[p][3].attrData).props,
                     PROP_ATTACH_DATA_BIN)
        /\ result[p].subject = StrHi
        /\ result[p].attachments = << >>

(* C34: an attribute whose level and id are no pair of the dispatch table  *)
(* is read whole (payload and, when two bytes follow, checksum) and changes*)
(* nothing else: subject, from, body, bodyHtml, the encoding, the          *)
(* attachment list and the open accumulator stay as they are.              *)
C34_Table ==
    {<<1, 36871>>, <<1, 32772>>, <<1, 32768>>, <<1, 32780>>, <<1, 36867>>,
     <<2, 36866>>, <<2, 32784>>, <<2, 32783>>, <<2, 36869>>}
C34_AtUnhandled(p) ==
    /\ pc[p] = "loop"
    /\ Len(buffer[p]) - pos[p] >= 9
    /\ ~Above(RawLength(p), Len(buffer[p]) - (pos[p] + 9))
    /\ <<buffer[p][pos[p] + 1], GetUint16(buffer[p], pos[p] + 1)>> \notin C34_Table
C34_UnhandledIsSkipped ==
    [][\A p \in Procs :
          (C34_AtUnhandled(p) /\ pos'[p] # pos[p]) =>
              LET after == pos[p] + 9 + RawLength(p) IN
              /\ pos'[p] = IF Len(buffer[p]) - after >= 2 THEN after + 2 ELSE after
              /\ pc'[p] = "loop" /\ error'[p] = error[p]
              /\ subject'[p] = subject[p] /\ from'[p] = from[p]
              /\ body'[p] = body[p] /\ bodyHtml'[p] = bodyHtml[p]
              /\ ansiEncoding'[p] = ansiEncoding[p]
              /\ attachments'[p] = attachments[p]
              /\ currentAttachment'[p] = currentAttachment[p]]_vars

(* C34 witness: after a SUBJECT 'Hi', a REND_DATA and a DATA of 3 bytes an *)
(* attachment-level attribute with the id of SUBJECT and the payload       *)
(* 'Hello' was read, then a BODY; the parse returned subject 'Hi', body    *)
(* 'notes' and one attachment of 3 bytes.                                  *)
C34_Witness ==
    \E p \in Procs :
        /\ pc[p] = "done"
        /\ Len(dispatched[p]) = 5
        /\ IsAttEntry(dispatched[p][4], ATTR_SUBJECT)
        /\ IsMsgEntry(dispatched[p][5], ATTR_BODY)
        /\ result[p].subject = StrHi /\ result[p].body = StrNotes
        /\ Len(result[p].attachments) = 1
        /\ result[p].attachments[1].size = 3

(* C35: the size of every accumulator, open or in the list, is the length  *)
(* of its payload, 0 when it has none, at every point of the parse; every  *)
(* attachment returned has size = length of data and size > 0.             *)
C35_SizeOf(a) == IF a.data = Null THEN 0 ELSE Len(a.data)
C35_SizeIsPayloadLength ==
    \A p \in Procs :
        /\ currentAttachment[p] # NoAttachment =>
               currentAttachment[p].size = C35_SizeOf(currentAttachment[p])
        /\ \A i \in 1..Len(attachments[p]) :
               attachments[p][i].size = C35_SizeOf(attachments[p][i])
        /\ pc[p] = "done" =>
               \A i \in 1..Len(result[p].attachments) :
                   /\ result[p].attachments[i].size
                          = Len(result[p].attachments[i].data)
                   /\ result[p].attachments[i].size > 0

(* C35 witness: in one accumulator a block wrote a binary payload of 2     *)
(* bytes and then a DATA attribute one of 5 bytes; the attachment returned *)
(* has size 5.                                                             *)
C35_Witness ==
    \E p \in Procs :
        /\ pc[p] = "done"
        /\ Len(dispatched[p]) = 3
        /\ IsAttEntry(dispatched[p][1], ATTACH_REND_DATA)
        /\ IsAttEntry(dispatched[p][2], ATTACH_MAPI_PROPS)
        /\ HasBinary(ScanBlock(dispatched[p][2].attrData).props,
                     PROP_ATTACH_DATA_BIN)
        /\ Len(LastBinary(ScanBlock(dispatched[p][2].attrData).props,
                          PROP_ATTACH_DATA_BIN)) = 2
        /\ IsAttEntry(dispatched[p][3], ATTACH_DATA)
        /\ Len(result[p].attachments) = 1
        /\ result[p].attachments[1].size = 5
        /\ Len(result[p].attachments[1].data) = 5

(* The block holds a string property with one of these ids and the text of *)
(* every such property is empty (for BODY_HTML, a binary one too). *)
C36_OnlyEmpty(props, ids) ==
    /\ \E i \in 1..Len(props) : props[i].propId \in ids
    /\ \A i \in 1..Len(props) :
           props[i].propId \in ids =>
               IF props[i].propType = PT_BINARY
               THEN ids = {PROP_BODY_HTML} /\ props[i].bytes = << >>
               ELSE IsText(props[i]) /\ TextOf(props[i]) = << >>
(* The last string property with this id is empty. *)
C36_LastEmpty(props, id) ==
    /\ \E i \in 1..Len(props) : props[i].propId = id /\ IsText(props[i])
    /\ LastText(props, id) = << >>

(* C36: a string property of a block that decodes to the empty string      *)
(* clears no field.  A message-level block whose last SUBJECT (BODY) string*)
(* is empty leaves subject (body) as it was; one whose BODY_HTML values    *)
(* are all empty leaves bodyHtml, and one whose sender names and emails    *)
(* are all empty leaves from.  An attachment-level block whose last long   *)
(* filename, filename, display name, MIME tag or extension is empty leaves *)
(* that field of the open accumulator as it was.                           *)
C36_EmptyNeverClears ==
    /\ [][\A p \in Procs :
            (AtAttribute(p, LVL_MESSAGE, ATTR_MAPI_PROPS) /\ pos'[p] # pos[p]) =>
                LET props == ScanBlock(RawPayload(p)).props IN
                /\ C36_LastEmpty(props, PROP_SUBJECT) => subject'[p] = subject[p]
                /\ C36_LastEmpty(props, PROP_BODY) => body'[p] = body[p]
                /\ C36_OnlyEmpty(props, {PROP_BODY_HTML}) =>
                       bodyHtml'[p] = bodyHtml[p]
                /\ C36_OnlyEmpty(props, {PROP_SENDER_NAME, PROP_SENT_REPR_NAME,
                                        PROP_SENDER_EMAIL, PROP_SENT_REPR_EMAIL})
                       => from'[p] = from[p]]_vars
    /\ [][\A p \in Procs :
            (/\ AtAttribute(p, LVL_ATTACHMENT, ATTACH_MAPI_PROPS)
             /\ currentAttachment[p] # NoAttachment
             /\ pos'[p] # pos[p]) =>
                LET props == ScanBlock(RawPayload(p)).props
                    old == currentAttachment[p]
                    new == currentAttachment'[p]
                IN  /\ C36_LastEmpty(props, PROP_ATTACH_LONG_FILENAME) =>
                           new.mapiLongFilename = old.mapiLongFilename
                    /\ C36_LastEmpty(props, PROP_ATTACH_FILENAME) =>
                           new.mapiFilename = old.mapiFilename
                    /\ C36_LastEmpty(props, PROP_DISPLAY_NAME) =>
                           new.mapiDisplayName = old.mapiDisplayName
                    /\ C36_LastEmpty(props, PROP_ATTACH_MIME_TAG) =>
                           new.mimeType = old.mimeType
                    /\ C36_LastEmpty(props, PROP_ATTACH_EXTENSION) =>
                           new.extension = old.extension]_vars

(* C36 witness: after a legacy SUBJECT and BODY a block with BODY 'Hello'  *)
(* and then an empty BODY has been read; the parse returned the legacy     *)
(* body 'notes'.                                                           *)
C36_Witness ==
    \E p \in Procs :
        /\ pc[p] = "done"
        /\ Len(dispatched[p]) = 3
        /\ IsMsgEntry(dispatched[p][2], ATTR_BODY)
        /\ IsMsgEntry(dispatched[p][3], ATTR_MAPI_PROPS)
        /\ Len(ScanBlock(dispatched[p][3].attrData).props) = 2
        /\ C36_LastEmpty(ScanBlock(dispatched[p][3].attrData).props, PROP_BODY)
        /\ result[p].body = StrNotes

(* C37: a read of the cursor that throws 'Unexpected end of data' leaves   *)
(* the offset where it was, and it throws that exactly when fewer bytes    *)
(* remain than it reads; a read that returns advances the offset by the    *)
(* bytes it reads: 1 for readUint8, 2 for readUint16LE, 4 for              *)
(* readUint32LE, length for readBytes(length), which returns that many     *)
(* bytes when the offset is not below 0.                                   *)
C37_Width(c) ==
    IF c.fn = "readUint8" THEN 1
    ELSE IF c.fn = "readUint16LE" THEN 2
    ELSE IF c.fn = "readUint32LE" THEN 4
    ELSE IF IsLarge(c.arg) THEN MaxInt32
    ELSE c.arg
C37_IsRead(c) ==
    c.fn \in {"readUint8", "readUint16LE", "readUint32LE", "readBytes"}
C37_FailedReadKeepsCursor ==
    [][C37_IsRead(call') =>
          LET short == C37_Width(call') > Len(buffer[1]) - pos[1] IN
          /\ short => /\ call'.st = Threw /\ error'[1] = ErrEnd
                      /\ pos'[1] = pos[1]
          /\ (call'.st = Threw /\ error'[1] = ErrEnd) =>
                 short /\ pos'[1] = pos[1]
          /\ call'.st = Returned =>
                 /\ ~short
                 /\ pos'[1] = pos[1] + C37_Width(call')
                 /\ (call'.fn = "readBytes" /\ pos[1] >= 0) =>
                        Len(call'.out) = call'.arg]_vars

(* C37 witness: on a buffer of 5 bytes readUint16LE returned, moving the   *)
(* offset to 2, and readUint32LE then threw with the offset still at 2.    *)
C37_Witness ==
    /\ Len(buffer[1]) = 5 /\ pos[1] = 2
    /\ call.fn = "readUint32LE" /\ call.st = Threw
    /\ error[1] = ErrEnd

====
